---- MODULE Spec2Model ----
(***************************************************************************)
(* A model of the host-agent orchestrator (samples/js/src/agents/           *)
(* orchestrator): the conversation memory, the agent registry lookups, the  *)
(* dispatch and stream multiplexing of executeTaskPlan, and the task        *)
(* handler that drives them.                                                *)
(*                                                                          *)
(* Strings are sequences of one-character strings, so that toLowerCase,     *)
(* replace(/\s+/g, '-') and includes are computed and not assumed.          *)
(* An optional value (x | undefined) is a sequence of length 0 or 1.        *)
(* Date stamps (timestamp, lastUpdatedAt, requestTimestamp) and console     *)
(* output are left out: nothing in the code reads them back.                *)
(***************************************************************************)
EXTENDS Integers, Sequences, FiniteSets, TLC

VARIABLES
    agents,          \* AgentRegistry.agents, in insertion order
    agentsByCapability, \* AgentRegistry.agentsByCapability: capability -> ids
    conversations,   \* ConversationMemory.conversations: id -> Conversation
    runs,            \* one record per handler / executeTaskPlan invocation
    probe            \* inputs and results of the pure-function checks

vars == <<agents, agentsByCapability, conversations, runs, probe>>

----------------------------------------------------------------------------
(* Bounds                                                                  *)

MaxEvents == 2       \* events a remote stream produces before it ends
MaxTurnEvents == 1   \* the same, for the streams of a handled request
MaxOverlapEvents == 1 \* the same, for requests handled at the same time
MaxRuns == 2         \* requests handled for the session
MaxProbeLen == 2     \* length of the probed parent ids and agent names
MaxDispatches == 3   \* probed calls of generateSubTaskId
MaxSets == 2         \* logged calls of setInputRequiredState per conversation

----------------------------------------------------------------------------
(* Strings                                                                 *)

Lower(c) ==
    CASE c = "A" -> "a"
      [] c = "B" -> "b"
      [] c = "M" -> "m"
      [] c = "T" -> "t"
      [] c = "Z" -> "z"
      [] OTHER -> c

toLowerCase(s) == [i \in 1..Len(s) |-> Lower(s[i])]

IsSpace(c) == c = " "

\* s.replace(/\s+/g, '-'): every maximal run of white space becomes one '-'.
RECURSIVE replaceSpaces(_)
replaceSpaces(s) ==
    IF s = <<>> THEN <<>>
    ELSE IF IsSpace(Head(s))
         THEN IF Len(s) > 1 /\ IsSpace(s[2])
              THEN replaceSpaces(Tail(s))
              ELSE <<"-">> \o replaceSpaces(Tail(s))
         ELSE <<Head(s)>> \o replaceSpaces(Tail(s))

\* hay.includes(needle)
includes(hay, needle) ==
    \E i \in 0..(Len(hay) - Len(needle)) :
        SubSeq(hay, i + 1, i + Len(needle)) = needle

generateSubTaskIdNoParent(parentTaskId, agentName) ==
    replaceSpaces(toLowerCase(agentName))

generateSubTaskId(parentTaskId, agentName) ==
    parentTaskId \o <<"-">> \o replaceSpaces(toLowerCase(agentName))

----------------------------------------------------------------------------
(* Optional values and small helpers                                       *)

None == <<>>
Some(x) == <<x>>
IsSome(o) == o # <<>>
The(o) == o[1]

SeqToSet(s) == {s[i] : i \in 1..Len(s)}

----------------------------------------------------------------------------
(* AgentRegistry                                                           *)

NameA == <<"A">>
NameB == <<"B">>
NameZ == <<"Z">>     \* a name no registered agent carries

ManagedAgent(id, name, status) == [id |-> id, name |-> name, status |-> status]

\* Array.from(this.agents.values()).find(a => a.name.toLowerCase().includes(lowerName)):
\* the position of the first match in insertion order, 0 when there is none.
findAgentByName(name) ==
    LET lowerName == toLowerCase(name)
        hits == {i \in 1..Len(agents) : includes(toLowerCase(agents[i].name), lowerName)}
    IN  IF hits = {} THEN 0 ELSE CHOOSE i \in hits : \A j \in hits : i <= j

----------------------------------------------------------------------------
(* ConversationMemory                                                      *)

Conversation == [turns |-> <<>>, lastState |-> None]

ConversationTurn(userMessage, taskId) ==
    [userMessage |-> userMessage, taskId |-> taskId,
     agentResponse |-> None, subTasks |-> <<>>]

\* getConversation: the conversation, or undefined
getConversation(convs, id) ==
    IF id \in DOMAIN convs THEN Some(convs[id]) ELSE None

createConversation(convs, id) ==
    [c \in DOMAIN convs \cup {id} |-> IF c = id THEN Conversation ELSE convs[c]]

addUserMessageThrows(convs, id) == id \notin DOMAIN convs

addUserMessage(convs, id, userMessage, taskId) ==
    [convs EXCEPT ![id].turns = Append(@, ConversationTurn(userMessage, taskId))]

addAgentResponseThrows(convs, id) ==
    id \notin DOMAIN convs \/ convs[id].turns = <<>>

addAgentResponseFirstTurn(convs, id, agentResponse) ==
    [convs EXCEPT ![id].turns[1].agentResponse = Some(agentResponse)]

addAgentResponse(convs, id, agentResponse) ==
    [convs EXCEPT ![id].turns[Len(convs[id].turns)].agentResponse = Some(agentResponse)]

InputRequiredState(agentName, subTaskId) ==
    [inputRequiredAgent |-> agentName, subTaskId |-> subTaskId]

setInputRequiredStateThrows(convs, id) == id \notin DOMAIN convs

setInputRequiredStateKeepFirst(convs, id, agentName, subTaskId) ==
    IF IsSome(convs[id].lastState) THEN convs
    ELSE [convs EXCEPT ![id].lastState = Some(InputRequiredState(agentName, subTaskId))]

setInputRequiredState(convs, id, agentName, subTaskId) ==
    [convs EXCEPT ![id].lastState = Some(InputRequiredState(agentName, subTaskId))]

clearInputRequiredState(convs, id) ==
    IF id \notin DOMAIN convs THEN convs
    ELSE [convs EXCEPT ![id].lastState = None]

addSubTaskInfoThrows(convs, id) ==
    id \notin DOMAIN convs \/ convs[id].turns = <<>>

addSubTaskInfo(convs, id, agentName, taskId, success) ==
    [convs EXCEPT ![id].turns[Len(convs[id].turns)].subTasks =
        Append(@, [agentName |-> agentName, taskId |-> taskId, success |-> success])]

----------------------------------------------------------------------------
(* Task plans, remote streams and the per-invocation state                 *)

EventKinds == {"working", "completed", "failed", "canceled", "input-required", "artifact"}
TerminalStates == {"completed", "failed", "canceled"}

\* The kinds of event and the number of events the remote agents are made to
\* produce. A run's mode names the regime it is made in: "direct" for a direct
\* call of executeTaskPlan, "handler" for a request handled while no other
\* is, "overlap" for requests of one session handled at the same time.
ExecEventKinds == {"working", "completed", "input-required"}
HandlerEventKinds == {"completed", "input-required", "artifact"}
OverlapEventKinds == {"completed", "input-required"}
EventsOf(mode) ==
    CASE mode = "direct" -> ExecEventKinds
      [] mode = "handler" -> HandlerEventKinds
      [] OTHER -> OverlapEventKinds
BudgetOf(mode) ==
    CASE mode = "direct" -> MaxEvents
      [] mode = "handler" -> MaxTurnEvents
      [] OTHER -> MaxOverlapEvents

TaskPlan(selected, multi, waiting) ==
    [selectedAgents |-> selected, isMultiAgentTask |-> multi,
     waitingSubTaskId |-> waiting]

\* The message of a request, and the message built from a generated prompt.
UserMessage(m) == [kind |-> "user", text |-> m]
TaskMessage(prompt) == [kind |-> "prompt", text |-> prompt]

\* The stream returned by A2AClient.sendTaskSubscribe: an async generator.
\* Calls of next() queue up and are answered one at a time, in order, each
\* by the next item of the sequence; pending counts the unanswered calls.
Stream(id, message, agent, mode) ==
    [id |-> id, message |-> message, agent |-> agent, mode |-> mode,
     pending |-> 0, items |-> <<>>, fin |-> "open"]

Run(pc, mode, taskId, sessionId, userMessage, plan) ==
    [pc |-> pc, mode |-> mode, taskId |-> taskId, sessionId |-> sessionId,
     userMessage |-> userMessage, plan |-> plan,
     agentsByName |-> <<>>, latestUserMessage |-> None, next |-> 0,
     streams |-> <<>>, streamingTasks |-> <<>>, activeStreams |-> {},
     cur |-> None, inputRequiredAgents |-> {}, yielded |-> <<>>,
     prompts |-> <<>>, opened |-> <<>>,
     results |-> {}, waitingForInput |-> FALSE, agentNeedingInput |-> None,
     getTaskCalls |-> <<>>, integrations |-> 0, oracleCalls |-> 0,
     forward |-> None, reply |-> None, cancelled |-> FALSE, oracleLog |-> <<>>,
     out |-> <<>>]

isResumingInputRequiredTask(plan) == IsSome(plan.waitingSubTaskId)

\* Lines 114-122: the Map agentsByName, in insertion order; a name that is
\* selected twice keeps its first position.
RECURSIVE resolveSelected(_, _)
resolveSelected(selected, acc) ==
    IF selected = <<>> THEN acc
    ELSE LET name == Head(selected)
             a == findAgentByName(name)
         IN  resolveSelected(Tail(selected),
                IF a = 0 \/ \E i \in 1..Len(acc) : acc[i].agentName = name
                THEN acc
                ELSE Append(acc, [agentName |-> name, agent |-> a]))

\* Lines 154-157 and 166-168, and again 201-203: the id of the sub-task.
dispatchSubTaskIdFresh(R, agentName) == generateSubTaskId(R.taskId, agentName)

dispatchSubTaskId(R, agentName) ==
    IF isResumingInputRequiredTask(R.plan)
    THEN The(R.plan.waitingSubTaskId)
    ELSE generateSubTaskId(R.taskId, agentName)

\* Lines 160-165 and 170-191: the message handed to sendTaskSubscribe.
dispatchMessage(R, agentName, prompt) ==
    IF isResumingInputRequiredTask(R.plan)
    THEN The(R.latestUserMessage)
    ELSE TaskMessage(prompt)

\* Lines 149-205 for one agent: st = [run, convs]; ok says whether
\* sendTaskSubscribe returned a stream or threw.
openOneAbort(st, e, prompt, ok) ==
    LET R == st.run
        subTaskId == dispatchSubTaskId(R, e.agentName)
        message == dispatchMessage(R, e.agentName, prompt)
        call == [agentName |-> e.agentName, agent |-> e.agent, id |-> subTaskId,
                 message |-> message, ok |-> ok]
    IN  IF ok
        THEN [run |-> [R EXCEPT
                  !.streams = (e.agentName :> Stream(subTaskId, message, e.agent, R.mode)) @@ @,
                  !.streamingTasks = Append(@, e.agentName),
                  !.opened = Append(@, call)],
              convs |-> addSubTaskInfo(st.convs, R.sessionId, e.agentName, subTaskId, TRUE)]
        ELSE [run |-> [R EXCEPT !.opened = Append(@, call), !.streamingTasks = <<>>,
                                !.streams = <<>>],
              convs |-> addSubTaskInfo(st.convs, R.sessionId, e.agentName, subTaskId, FALSE)]

openOne(st, e, prompt, ok) ==
    LET R == st.run
        subTaskId == dispatchSubTaskId(R, e.agentName)
        message == dispatchMessage(R, e.agentName, prompt)
        call == [agentName |-> e.agentName, agent |-> e.agent, id |-> subTaskId,
                 message |-> message, ok |-> ok]
    IN  IF ok
        THEN [run |-> [R EXCEPT
                  !.streams = (e.agentName :> Stream(subTaskId, message, e.agent, R.mode)) @@ @,
                  !.streamingTasks = Append(@, e.agentName),
                  !.opened = Append(@, call)],
              convs |-> addSubTaskInfo(st.convs, R.sessionId, e.agentName, subTaskId, TRUE)]
        ELSE [run |-> [R EXCEPT !.opened = Append(@, call)],
              convs |-> addSubTaskInfo(st.convs, R.sessionId, e.agentName, subTaskId, FALSE)]

\* The resumption branch has no await: the whole loop of lines 149-206 runs
\* at once. F is the set of agents whose sendTaskSubscribe throws.
RECURSIVE openAll(_, _, _)
openAll(st, i, F) ==
    IF i > Len(st.run.agentsByName) THEN st
    ELSE LET e == st.run.agentsByName[i]
         IN  openAll(openOne(st, e, <<>>, e.agentName \notin F), i + 1, F)

\* Lines 222-234: one next() on every stream of activeStreams.
pullAll(R) ==
    [R EXCEPT !.streams =
        [k \in DOMAIN R.streams |->
            IF k \in R.activeStreams
            THEN [R.streams[k] EXCEPT !.pending = @ + 1]
            ELSE R.streams[k]]]

enterLoopUntilOneLeft(R) ==
    IF Cardinality(R.activeStreams) <= 1
    THEN [R EXCEPT !.pc = "exec_done"]
    ELSE [pullAll(R) EXCEPT !.pc = "mux_wait"]

\* Lines 214-239: the head of the while loop, up to the await of the race;
\* lines 281-287 when the live set is empty.
enterLoop(R) ==
    IF R.activeStreams = {}
    THEN [R EXCEPT !.pc = "exec_done"]
    ELSE [pullAll(R) EXCEPT !.pc = "mux_wait"]

\* Lines 209-212.
startMux(R) ==
    enterLoop([R EXCEPT !.activeStreams = SeqToSet(R.streamingTasks)])

----------------------------------------------------------------------------
(* executeTaskPlan                                                         *)

\* A call of ai.generateStream made by the TaskRouter for the run, and
\* whether it answered (ok) or threw.
OracleCall(call, agentName, ok) == [call |-> call, agentName |-> agentName, ok |-> ok]

generateSubTaskPromptNoFallback(plan, agentName, oracleOk) ==
    IF ~plan.isMultiAgentTask THEN <<"base", agentName>>
    ELSE IF oracleOk THEN <<"generated", agentName>>
    ELSE <<"original task">>

\* TaskRouter.generateSubTaskPrompt: the plan's base instruction for a
\* single-agent plan, else the oracle's text, or the base when it fails.
generateSubTaskPrompt(plan, agentName, oracleOk) ==
    IF ~plan.isMultiAgentTask THEN <<"base", agentName>>
    ELSE IF oracleOk THEN <<"generated", agentName>>
    ELSE <<"base", agentName>>

\* Line 171: the call is made, and executeTaskPlan awaits its result.
callPrompt(R) ==
    [R EXCEPT !.pc = "dispatch",
              !.prompts = Append(@, R.agentsByName[R.next].agentName)]

\* Lines 109-147, and the whole dispatch loop when the plan resumes.
ExecStart(r) ==
    LET R == runs[r]
        byName == resolveSelected(R.plan.selectedAgents, <<>>)
        conv == getConversation(conversations, R.sessionId)
    IN  /\ R.pc = "exec_start"
        /\ IF byName = <<>> \/ ~IsSome(conv) \/ The(conv).turns = <<>>
           THEN /\ runs' = [runs EXCEPT ![r].pc = "exec_threw"]
                /\ UNCHANGED conversations
           ELSE LET turns == The(conv).turns
                    R1 == [R EXCEPT !.agentsByName = byName,
                                    !.latestUserMessage = Some(turns[Len(turns)].userMessage),
                                    !.next = 1]
                IN  IF isResumingInputRequiredTask(R.plan)
                    THEN \E F \in SUBSET {byName[i].agentName : i \in 1..Len(byName)} :
                            LET st == openAll([run |-> R1, convs |-> conversations], 1, F)
                            IN  /\ runs' = [runs EXCEPT ![r] = startMux(st.run)]
                                /\ conversations' = st.convs
                    ELSE /\ runs' = [runs EXCEPT ![r] = callPrompt(R1)]
                         /\ UNCHANGED conversations
        /\ UNCHANGED <<agents, agentsByCapability, probe>>

\* Lines 171-205 for the agent whose prompt was awaited, then the next
\* iteration up to its await, or lines 209-239 after the last one.
DispatchStep(r) ==
    LET R == runs[r]
    IN  /\ R.pc = "dispatch"
        /\ \E oracleOk \in (IF R.plan.isMultiAgentTask THEN BOOLEAN ELSE {TRUE}),
              ok \in BOOLEAN :
              LET e == R.agentsByName[R.next]
                  prompt == generateSubTaskPrompt(R.plan, e.agentName, oracleOk)
                  st == openOne([run |-> R, convs |-> conversations], e, prompt, ok)
                  R2 == [st.run EXCEPT
                            !.next = @ + 1,
                            !.oracleLog = IF R.plan.isMultiAgentTask
                                          THEN Append(@, OracleCall("generateSubTaskPrompt",
                                                                    e.agentName, oracleOk))
                                          ELSE @]
              IN  /\ runs' = [runs EXCEPT ![r] =
                        IF R2.next <= Len(R2.agentsByName)
                        THEN callPrompt(R2) ELSE startMux(R2)]
                  /\ conversations' = st.convs
        /\ UNCHANGED <<agents, agentsByCapability, probe>>

\* What the stream answers the oldest unanswered next() with.
NextItems(S) ==
    IF S.fin # "open" THEN {"done"}
    ELSE (IF Len(S.items) < BudgetOf(S.mode) THEN EventsOf(S.mode) ELSE {})
         \cup {"end", "raise"}

deliver(S, item) ==
    [S EXCEPT !.pending = @ - 1,
              !.items = IF item \in EventKinds THEN Append(@, item) ELSE @,
              !.fin = CASE item = "end" -> "ended"
                        [] item = "raise" -> "raised"
                        [] OTHER -> @]

\* Lines 256-258: the id stored with an input-required state.
inputRequiredSubTaskId(R, agentName) ==
    IF isResumingInputRequiredTask(R.plan) /\ agentName = R.plan.selectedAgents[1]
    THEN The(R.plan.waitingSubTaskId)
    ELSE generateSubTaskId(R.taskId, agentName)

yieldEventTwice(R, agentName, event) ==
    LET y == [agentName |-> agentName, event |-> event,
              index |-> Len(R.streams[agentName].items)]
    IN  [R EXCEPT !.pc = "yielded",
                  !.cur = Some([agentName |-> agentName, event |-> event]),
                  !.yielded = Append(Append(@, y), y)]

\* Lines 268 and 277: the generator hands the tagged event to its consumer.
yieldEvent(R, agentName, event) ==
    [R EXCEPT !.pc = "yielded",
              !.cur = Some([agentName |-> agentName, event |-> event]),
              !.yielded = Append(@, [agentName |-> agentName, event |-> event,
                                     index |-> Len(R.streams[agentName].items)])]

onRaceYieldOnly(st, agentName, item) ==
    LET R == st.run
    IN  IF item \notin EventKinds
        THEN [run |-> enterLoop([R EXCEPT !.activeStreams = @ \ {agentName}]),
              convs |-> st.convs]
        ELSE [run |-> yieldEvent(R, agentName, item), convs |-> st.convs]

\* Lines 239-278: the race is decided for stream agentName with item.
onRace(st, agentName, item) ==
    LET R == st.run
    IN  IF item \notin EventKinds
        THEN [run |-> enterLoop([R EXCEPT !.activeStreams = @ \ {agentName}]),
              convs |-> st.convs]
        ELSE IF item = "input-required"
        THEN LET subTaskId == inputRequiredSubTaskId(R, agentName)
             IN  [run |-> yieldEvent(
                      [R EXCEPT !.inputRequiredAgents =
                          {x \in @ : x.agentName # agentName}
                          \cup {[agentName |-> agentName, subTaskId |-> subTaskId]}],
                      agentName, item),
                  convs |-> setInputRequiredState(st.convs, R.sessionId, agentName, subTaskId)]
        ELSE [run |-> yieldEvent(R, agentName, item), convs |-> st.convs]

\* Lines 270-272 then the loop again: the consumer asked for the next event.
resume(R) ==
    LET c == The(R.cur)
    IN  enterLoop([R EXCEPT !.cur = None,
                     !.activeStreams = IF c.event = "input-required"
                                       THEN @ \ {c.agentName} ELSE @])

\* A stream of the live set answers its oldest unanswered next(). The answer
\* decides the race only when it answers the call of the round being awaited;
\* an answer to a call of an earlier round goes to a promise nobody holds.
Arrive(r, agentName) ==
    LET R == runs[r]
    IN  /\ R.pc \in {"mux_wait", "yielded"}
        /\ agentName \in R.activeStreams
        /\ R.streams[agentName].pending > 0
        /\ \E item \in NextItems(R.streams[agentName]) :
              LET S == R.streams[agentName]
                  R1 == [R EXCEPT !.streams[agentName] = deliver(S, item)]
              IN  IF R.pc = "mux_wait" /\ S.pending = 1
                  THEN LET st == onRace([run |-> R1, convs |-> conversations],
                                        agentName, item)
                       IN  /\ runs' = [runs EXCEPT ![r] = st.run]
                           /\ conversations' = st.convs
                  ELSE /\ runs' = [runs EXCEPT ![r] = R1]
                       /\ UNCHANGED conversations
        /\ UNCHANGED <<agents, agentsByCapability, probe>>

\* A direct caller of executeTaskPlan asks the generator for the next event.
CallerNext(r) ==
    /\ runs[r].mode = "direct"
    /\ runs[r].pc = "yielded"
    /\ runs' = [runs EXCEPT ![r] = resume(runs[r])]
    /\ UNCHANGED <<agents, agentsByCapability, conversations, probe>>

----------------------------------------------------------------------------
(* executeTaskPlan called with any plan on a conversation of one turn      *)

T0 == <<"T", "0">>
T1 == <<"T", "1">>
T2 == <<"T", "2">>
Session == "s1"
Registry == <<ManagedAgent("agent-a", NameA, "active"),
              ManagedAgent("agent-b", NameB, "active")>>
\* The index of the two default agents: each card has one skill, named as
\* the agent.
RegistryIndex == (toLowerCase(NameA) :> {"agent-a"}) @@ (toLowerCase(NameB) :> {"agent-b"})
PlanNames == {NameA, NameB, NameZ}
WaitingId == generateSubTaskId(T0, NameB)

SeqsUpTo(S, n) == UNION {[1..m -> S] : m \in 0..n}

ExecPlans ==
    {TaskPlan(sel, multi, w) :
        sel \in SeqsUpTo(PlanNames, 2), multi \in BOOLEAN,
        w \in {None, Some(WaitingId)}}

ExecRuns == {1}

InitExec ==
    /\ agents = Registry
    /\ agentsByCapability = RegistryIndex
    /\ probe = <<>>
    /\ \E plan \in ExecPlans :
          /\ runs = [r \in ExecRuns |->
                        Run("exec_start", "direct", T1, Session, UserMessage("m1"), plan)]
          /\ conversations = [c \in {Session} |->
                [turns |-> <<ConversationTurn(UserMessage("m1"), T1)>>,
                 lastState |-> IF IsSome(plan.waitingSubTaskId)
                               THEN Some(InputRequiredState(NameB, WaitingId))
                               ELSE None]]

NextExec ==
    \/ \E r \in ExecRuns : ExecStart(r)
    \/ \E r \in ExecRuns : DispatchStep(r)
    \/ \E r \in ExecRuns, k \in PlanNames : Arrive(r, k)
    \/ \E r \in ExecRuns : CallerNext(r)

SpecExec == InitExec /\ [][NextExec]_vars

\* The same, when an unanswered next() of an opened stream is answered in
\* the end (the stream produces its events, then ends or raises) and the
\* caller asks the generator for its next event after each one it is given.
FairExec ==
    /\ WF_vars(\E r \in ExecRuns : \E k \in PlanNames : Arrive(r, k))
    /\ WF_vars(\E r \in ExecRuns : CallerNext(r))

SpecExecFair == InitExec /\ [][NextExec]_vars /\ FairExec

----------------------------------------------------------------------------
(* executeTaskPlan when the stream of one agent never answers              *)

\* The agent whose stream hangs: a next() on it is never answered.
HungAgent == NameB

HungRegistry == Registry \o <<ManagedAgent("agent-z", NameZ, "active")>>

HungPlans ==
    {TaskPlan(sel, FALSE, None) :
        sel \in {q \in SeqsUpTo(PlanNames, 3) :
                    \A i, j \in 1..Len(q) : q[i] = q[j] => i = j}}

InitHung ==
    /\ agents = HungRegistry
    /\ agentsByCapability = RegistryIndex
    /\ probe = <<>>
    /\ \E plan \in HungPlans :
          runs = [r \in ExecRuns |->
                    Run("exec_start", "direct", T1, Session, UserMessage("m1"), plan)]
    /\ conversations = [c \in {Session} |->
          [turns |-> <<ConversationTurn(UserMessage("m1"), T1)>>, lastState |-> None]]

NextHung ==
    \/ \E r \in ExecRuns : ExecStart(r)
    \/ \E r \in ExecRuns : DispatchStep(r)
    \/ \E r \in ExecRuns, k \in PlanNames \ {HungAgent} : Arrive(r, k)
    \/ \E r \in ExecRuns : CallerNext(r)

\* Every other stream answers each next() in the end, the event loop runs
\* what is ready, and the caller keeps asking for the next event.
FairHung ==
    /\ \A k \in PlanNames \ {HungAgent} : WF_vars(\E r \in ExecRuns : Arrive(r, k))
    /\ WF_vars(\E r \in ExecRuns : CallerNext(r))

SpecExecHung == InitHung /\ [][NextHung]_vars /\ FairHung

----------------------------------------------------------------------------
(* TaskRouter.analyzeRequest and planExecution                             *)

ActiveAgents == SelectSeq(agents, LAMBDA a : a.status = "active")

RECURSIVE agentNames(_)
agentNames(as) ==
    IF as = <<>> THEN <<>> ELSE <<Head(as).name>> \o agentNames(Tail(as))

\* Lines 559-585 of analyzeRequest: the plan that continues with the agent
\* of lastState, when an available agent carries that very name.
agentStillAvailable(available, lastState) ==
    \E i \in 1..Len(available) :
        toLowerCase(available[i].name) = toLowerCase(lastState.inputRequiredAgent)

continuationPlan(lastState) ==
    TaskPlan(<<lastState.inputRequiredAgent>>, FALSE, Some(lastState.subTaskId))

fallbackPlanAlwaysMulti(available) ==
    TaskPlan(agentNames(available), TRUE, None)

\* Lines 670-686 of analyzeRequest.
fallbackPlan(available) ==
    TaskPlan(agentNames(available), Len(available) > 1, None)

\* What the planning oracle is made to answer; a failed or unparsable answer
\* gives the fallback plan.
OraclePlans(mode) ==
    IF mode = "handler"
    THEN {TaskPlan(sel, multi, None) :
            sel \in {<<>>, <<NameZ>>, <<NameA>>, <<NameB>>, <<NameA, NameB>>},
            multi \in BOOLEAN}
         \cup {fallbackPlan(ActiveAgents)}
    ELSE {TaskPlan(<<NameB>>, FALSE, None), TaskPlan(<<NameZ>>, FALSE, None)}

----------------------------------------------------------------------------
(* The task handler                                                        *)

yieldStatus(R, state) == [R EXCEPT !.out = Append(@, state)]

finish(R, state) == [yieldStatus(R, state) EXCEPT !.pc = "done"]

\* \w of generateAgentId, over the characters the addresses are made of.
IsWordChar(c) == c \in {"u", "1", "2", "_"}

\* `agent-${url.replace(/[^\w]/g, '-')}`
generateAgentId(url) ==
    <<"a", "g", "e", "n", "t", "-">>
        \o [i \in 1..Len(url) |-> IF IsWordChar(url[i]) THEN url[i] ELSE "-"]

\* this.agents.set(id, agent): an existing key keeps its position.
agentsSet(ags, id, agent) ==
    IF \E i \in 1..Len(ags) : ags[i].id = id
    THEN [i \in 1..Len(ags) |-> IF ags[i].id = id THEN agent ELSE ags[i]]
    ELSE Append(ags, agent)

\* Lines 243-250: id is added under every capability of the card.
indexCapabilities(index, capabilities, id) ==
    [c \in DOMAIN index \cup capabilities |->
        (IF c \in DOMAIN index THEN index[c] ELSE {})
            \cup (IF c \in capabilities THEN {id} ELSE {})]

\* Lines 274-277: card.skills.forEach and skill.id.toLowerCase() throw a
\* TypeError on undefined.
extractCapabilitiesThrows(d) ==
    \/ ~IsSome(d.skills)
    \/ \E k \in The(d.skills) : ~IsSome(k)

\* addAgent as a function of the registry and of what the fetch gave: the
\* value returned (None is null), whether it raised, and the two maps after.
addAgent(url, fetched, ags, index) ==
    IF ~IsSome(fetched)
    THEN [returned |-> None, raised |-> FALSE, agents |-> ags, index |-> index]
    ELSE IF extractCapabilitiesThrows(The(fetched))
    THEN [returned |-> None, raised |-> FALSE, agents |-> ags, index |-> index]
    ELSE LET id == generateAgentId(url)
             capabilities == {toLowerCase(The(k)) : k \in The(The(fetched).skills)}
             agent == [id |-> id, name |-> The(fetched).name, url |-> url,
                       capabilities |-> capabilities, status |-> "active"]
         IN  [returned |-> Some(agent), raised |-> FALSE,
              agents |-> agentsSet(ags, id, agent),
              index |-> indexCapabilities(index, capabilities, id)]

\* The texts of the requests: a task for the agents, the registry command
\* 'list agents' (lines 256-281), or the registry command 'add agent' with
\* the address of a server that does not answer (lines 221-254).
RequestTexts(r) == {<<"m", r>>, <<"list agents", r>>, <<"add agent", r>>}

\* userText.includes('add agent') || userText.includes('register agent'),
\* with an address in the text.
isAddAgent(userMessage) ==
    userMessage.text # <<>> /\ userMessage.text[1] = "add agent"

\* Lines 226-253: the two status updates of the command; the fetch of the
\* descriptor fails, addAgent returns null and leaves the registry as it was.
addAgentCommand(R) ==
    LET call == addAgent("http://down", None, agents, agentsByCapability)
    IN  finish(yieldStatus(yieldStatus(R, "working"), "working"),
               IF IsSome(call.returned) THEN "completed" ELSE "failed")

\* userText.includes('list agents') || userText === 'agents'
isListAgents(userMessage) ==
    userMessage.text # <<>> /\ userMessage.text[1] = "list agents"

HandleRequestCommandsFirst(r, taskId) ==
    \E text \in RequestTexts(r) :
        LET R == Run("plan", runs[r].mode, taskId, Session, UserMessage(text),
                     TaskPlan(<<>>, FALSE, None))
            conv == getConversation(conversations, Session)
            previousState == IF IsSome(conv) THEN The(conv).lastState ELSE None
        IN  /\ runs[r].pc = "idle"
            /\ \A q \in DOMAIN runs : q < r => runs[q].pc # "idle"
            /\ runs' = [runs EXCEPT ![r] =
                  IF isAddAgent(R.userMessage)
                  THEN addAgentCommand(R)
                  ELSE IF isListAgents(R.userMessage)
                  THEN finish(yieldStatus(R, "working"), "completed")
                  ELSE IF IsSome(previousState) /\ The(previousState).inputRequiredAgent # <<>>
                  THEN [yieldStatus(R, "working") EXCEPT
                            !.pc = "fwd_open", !.forward = previousState]
                  ELSE yieldStatus(yieldStatus(R, "working"), "working")]
            /\ UNCHANGED <<agents, agentsByCapability, conversations, probe>>

\* Lines 78-105 for the answer to a pending suspension; lines 78-95, 211-218
\* and 221-281 for the commands 'add agent' and 'list agents'; lines 78-95
\* and 211-312 for any
\* other request: the request is taken up and the handler reads lastState.
HandleRequest(r, taskId) ==
    \E text \in RequestTexts(r) :
        LET R == Run("plan", runs[r].mode, taskId, Session, UserMessage(text),
                     TaskPlan(<<>>, FALSE, None))
            conv == getConversation(conversations, Session)
            previousState == IF IsSome(conv) THEN The(conv).lastState ELSE None
        IN  /\ runs[r].pc = "idle"
            /\ \A q \in DOMAIN runs : q < r => runs[q].pc # "idle"
            /\ runs' = [runs EXCEPT ![r] =
                  IF IsSome(previousState) /\ The(previousState).inputRequiredAgent # <<>>
                  THEN [yieldStatus(R, "working") EXCEPT
                            !.pc = "fwd_open", !.forward = previousState]
                  ELSE IF isAddAgent(R.userMessage)
                  THEN addAgentCommand(R)
                  ELSE IF isListAgents(R.userMessage)
                  THEN finish(yieldStatus(R, "working"), "completed")
                  ELSE yieldStatus(yieldStatus(R, "working"), "working")]
            /\ UNCHANGED <<agents, agentsByCapability, conversations, probe>>

\* planExecution, lines 62-93, up to the call of the planning oracle; the
\* continuation plan of analyzeRequest is returned without an oracle call.
planned(R, plan) ==
    IF plan.selectedAgents = <<>>
    THEN finish(R, "failed")
    ELSE [yieldStatus(R, "working") EXCEPT !.pc = "exec_start", !.plan = plan]

PlanExecution(r) ==
    LET R == runs[r]
        c0 == IF IsSome(getConversation(conversations, R.sessionId))
              THEN conversations
              ELSE createConversation(conversations, R.sessionId)
        c1 == addUserMessage(c0, R.sessionId, R.userMessage, R.taskId)
        lastInputRequiredState == c0[R.sessionId].lastState
    IN  /\ R.pc = "plan"
        /\ conversations' = c1
        /\ runs' = [runs EXCEPT ![r] =
              IF ActiveAgents = <<>>
              THEN finish(R, "failed")
              ELSE IF IsSome(lastInputRequiredState)
                      /\ agentStillAvailable(ActiveAgents, The(lastInputRequiredState))
              THEN planned(R, continuationPlan(The(lastInputRequiredState)))
              ELSE [R EXCEPT !.pc = "oracle"]]
        /\ UNCHANGED <<agents, agentsByCapability, probe>>

\* analyzeRequest, lines 639-686, and the handler's lines 316-338.
Oracle(r) ==
    /\ runs[r].pc = "oracle"
    /\ \E plan \in OraclePlans(runs[r].mode) :
          runs' = [runs EXCEPT ![r] = planned(runs[r], plan)]
    /\ UNCHANGED <<agents, agentsByCapability, conversations, probe>>

CatchExecSwallow(r) ==
    /\ runs[r].mode # "direct"
    /\ runs[r].pc = "exec_threw"
    /\ runs' = [runs EXCEPT ![r] = finish(runs[r], "completed")]
    /\ UNCHANGED <<agents, agentsByCapability, conversations, probe>>

\* Lines 481-492: executeTaskPlan threw.
CatchExec(r) ==
    /\ runs[r].mode # "direct"
    /\ runs[r].pc = "exec_threw"
    /\ runs' = [runs EXCEPT ![r] = finish(runs[r], "failed")]
    /\ UNCHANGED <<agents, agentsByCapability, conversations, probe>>

\* What agent.client.getTask answers.
GetTaskOutcomes(mode) ==
    IF mode = "handler" THEN {"text", "empty", "null", "throws"} ELSE {"text", "null"}

\* Line 361: the id the handler asks the terminal record for.
lookupSubTaskId(R, agentName) ==
    R.taskId \o <<"-">> \o replaceSpaces(toLowerCase(agentName))

\* Lines 352-434: the body of the for-await loop for one yielded event, and
\* the request for the next one.
HandleEvent(r) ==
    LET R == runs[r]
        c == The(R.cur)
        terminal == c.event \in TerminalStates
        agent == findAgentByName(c.agentName)
    IN  /\ R.mode # "direct"
        /\ R.pc = "yielded"
        /\ \E outcome \in (IF terminal /\ agent # 0 THEN GetTaskOutcomes(R.mode) ELSE {"none"}) :
              LET R1 == IF terminal /\ agent # 0
                        THEN [R EXCEPT
                            !.getTaskCalls = Append(@, [agentName |-> c.agentName,
                                agent |-> agent,
                                id |-> lookupSubTaskId(R, c.agentName),
                                outcome |-> outcome]),
                            !.results = IF outcome \in {"text", "empty"}
                                THEN {x \in @ : x.agentName # c.agentName}
                                     \cup {[agentName |-> c.agentName, text |-> outcome = "text"]}
                                ELSE @]
                        ELSE R
                  R2 == IF c.event = "input-required"
                        THEN [R1 EXCEPT !.waitingForInput = TRUE,
                                        !.agentNeedingInput = Some(c.agentName)]
                        ELSE R1
                  R3 == yieldStatus(R2, IF c.event = "artifact" THEN "artifact" ELSE "working")
              IN  runs' = [runs EXCEPT ![r] =
                      IF R.cancelled THEN finish(R3, "canceled") ELSE resume(R3)]
        /\ UNCHANGED <<agents, agentsByCapability, conversations, probe>>

AfterLoopRecordsSuspension(r) ==
    LET R == runs[r]
        suspended == R.waitingForInput /\ IsSome(R.agentNeedingInput)
                     /\ The(R.agentNeedingInput) # <<>>
    IN  /\ R.mode # "direct"
        /\ R.pc = "exec_done"
        /\ runs' = [runs EXCEPT ![r] =
              IF suspended
              THEN finish(R, "input-required")
              ELSE [yieldStatus(R, "working") EXCEPT !.pc = "integrate"]]
        /\ conversations' = IF suspended
                            THEN addAgentResponse(conversations, R.sessionId,
                                                  <<"needs additional information">>)
                            ELSE conversations
        /\ UNCHANGED <<agents, agentsByCapability, probe>>

\* Lines 436-457: executeTaskPlan returned.
AfterLoop(r) ==
    LET R == runs[r]
    IN  /\ R.mode # "direct"
        /\ R.pc = "exec_done"
        /\ runs' = [runs EXCEPT ![r] =
              IF R.waitingForInput /\ IsSome(R.agentNeedingInput)
                 /\ The(R.agentNeedingInput) # <<>>
              THEN finish(R, "input-required")
              ELSE [yieldStatus(R, "working") EXCEPT !.pc = "integrate"]]
        /\ UNCHANGED <<agents, agentsByCapability, conversations, probe>>

\* Lines 300-338: the agents whose result holds text.
agentResponses(R) == {x.agentName : x \in {y \in R.results : y.text}}

\* The two fixed explanations of lines 346-350.
NotAbleToProcess == <<"not able to process your response">>
CouldNotDetermine == <<"could not determine which agents">>

integrateAgentResponsesOneExplanation(plan, texts, oracleOk) ==
    LET needsOracle == texts # {}
                       /\ ~(~plan.isMultiAgentTask /\ Cardinality(texts) = 1)
    IN  [response |-> IF texts = {} THEN CouldNotDetermine
                      ELSE IF ~needsOracle THEN <<"verbatim", texts>>
                      ELSE IF oracleOk THEN <<"composed", texts>>
                      ELSE <<"concatenated", texts>>,
         oracleCalls |-> IF needsOracle THEN 1 ELSE 0]

\* integrateAgentResponses for the agents whose result has text: the reply,
\* and the number of calls of the integration oracle (integrateResponses,
\* lines 780-790 of index.ts; oracleOk says whether that call succeeds).
integrateAgentResponses(plan, texts, oracleOk) ==
    LET needsOracle == texts # {}
                       /\ ~(~plan.isMultiAgentTask /\ Cardinality(texts) = 1)
    IN  [response |-> IF texts = {}
                      THEN IF IsSome(plan.waitingSubTaskId)
                           THEN NotAbleToProcess ELSE CouldNotDetermine
                      ELSE IF ~needsOracle THEN <<"verbatim", texts>>
                      ELSE IF oracleOk THEN <<"composed", texts>>
                      ELSE <<"concatenated", texts>>,
         oracleCalls |-> IF needsOracle THEN 1 ELSE 0]

\* Lines 459-479 of the handler.
Integrate(r) ==
    LET R == runs[r]
        texts == agentResponses(R)
    IN  /\ R.pc = "integrate"
        /\ \E oracleOk \in BOOLEAN :
              LET result == integrateAgentResponses(R.plan, texts, oracleOk)
              IN  /\ (result.oracleCalls = 0 => oracleOk)
                  /\ runs' = [runs EXCEPT ![r] =
                        finish([R EXCEPT !.integrations = @ + 1,
                                         !.oracleCalls = @ + result.oracleCalls,
                                         !.oracleLog = IF result.oracleCalls = 1
                                                       THEN Append(@, OracleCall("integrateResponses",
                                                                                 <<>>, oracleOk))
                                                       ELSE @,
                                         !.reply = Some(result.response)],
                               "completed")]
                  /\ conversations' = addAgentResponse(conversations, R.sessionId,
                                                       result.response)
        /\ UNCHANGED <<agents, agentsByCapability, probe>>

\* Lines 107-119: the answer is forwarded to the agent that waits for it,
\* and the for-await loop asks the stream for its first event.
FwdOpen(r) ==
    LET R == runs[r]
        fw == The(R.forward)
        agent == findAgentByName(fw.inputRequiredAgent)
    IN  /\ R.pc = "fwd_open"
        /\ \E ok \in BOOLEAN :
              LET call == [agentName |-> fw.inputRequiredAgent, agent |-> agent,
                           id |-> fw.subTaskId, message |-> R.userMessage, ok |-> ok]
                  S == Stream(fw.subTaskId, R.userMessage, agent, R.mode)
              IN  runs' = [runs EXCEPT ![r] =
                      IF agent = 0 THEN finish(R, "failed")
                      ELSE IF ~ok THEN finish([R EXCEPT !.opened = Append(@, call)], "failed")
                      ELSE [R EXCEPT !.pc = "fwd_wait",
                                     !.opened = Append(@, call),
                                     !.streams = (fw.inputRequiredAgent :>
                                                    [S EXCEPT !.pending = 1]) @@ @]]
        /\ UNCHANGED <<agents, agentsByCapability, conversations, probe>>

FwdArriveClearsOnError(r) ==
    LET R == runs[r]
        fw == The(R.forward)
        k == fw.inputRequiredAgent
    IN  /\ R.pc = "fwd_wait"
        /\ \E item \in NextItems(R.streams[k]) :
              LET R1 == [R EXCEPT !.streams[k] = deliver(@, item)]
                  R2 == yieldStatus(R1, "working")
              IN  CASE item \in TerminalStates ->
                        /\ conversations' = clearInputRequiredState(conversations, R.sessionId)
                        /\ runs' = [runs EXCEPT ![r] = finish(R2, "completed")]
                    [] item = "input-required" ->
                        /\ conversations' = setInputRequiredState(conversations,
                                                R.sessionId, k, fw.subTaskId)
                        /\ runs' = [runs EXCEPT ![r] = finish(R2, "input-required")]
                    [] item = "end" ->
                        /\ conversations' = clearInputRequiredState(conversations, R.sessionId)
                        /\ runs' = [runs EXCEPT ![r] = finish(R1, "completed")]
                    [] item \in {"raise", "done"} ->
                        /\ conversations' = clearInputRequiredState(conversations, R.sessionId)
                        /\ runs' = [runs EXCEPT ![r] = finish(R1, "failed")]
                    [] OTHER ->
                        /\ UNCHANGED conversations
                        /\ runs' = [runs EXCEPT ![r] =
                                [R2 EXCEPT !.streams[k].pending = 1]]
        /\ UNCHANGED <<agents, agentsByCapability, probe>>

\* Lines 122-207: one event of the forwarded stream, its end, or its error.
FwdArrive(r) ==
    LET R == runs[r]
        fw == The(R.forward)
        k == fw.inputRequiredAgent
    IN  /\ R.pc = "fwd_wait"
        /\ \E item \in NextItems(R.streams[k]) :
              LET R1 == [R EXCEPT !.streams[k] = deliver(@, item)]
                  R2 == yieldStatus(R1, "working")
              IN  CASE item \in TerminalStates ->
                        /\ conversations' = clearInputRequiredState(conversations, R.sessionId)
                        /\ runs' = [runs EXCEPT ![r] = finish(R2, "completed")]
                    [] item = "input-required" ->
                        /\ conversations' = setInputRequiredState(conversations,
                                                R.sessionId, k, fw.subTaskId)
                        /\ runs' = [runs EXCEPT ![r] = finish(R2, "input-required")]
                    [] item = "end" ->
                        /\ conversations' = clearInputRequiredState(conversations, R.sessionId)
                        /\ runs' = [runs EXCEPT ![r] = finish(R1, "completed")]
                    [] item \in {"raise", "done"} ->
                        /\ UNCHANGED conversations
                        /\ runs' = [runs EXCEPT ![r] = finish(R1, "failed")]
                    [] OTHER ->
                        /\ UNCHANGED conversations
                        /\ runs' = [runs EXCEPT ![r] =
                                [R2 EXCEPT !.streams[k].pending = 1]]
        /\ UNCHANGED <<agents, agentsByCapability, probe>>

\* The caller cancels the task while the handler runs: context.isCancelled()
\* answers true from now on.
Cancel(r) ==
    /\ runs[r].pc \notin {"idle", "done", "retired"}
    /\ runs[r].mode # "direct"
    /\ ~runs[r].cancelled
    /\ runs' = [runs EXCEPT ![r].cancelled = TRUE]
    /\ UNCHANGED <<agents, agentsByCapability, conversations, probe>>

\* The handler has returned: its locals are gone, the caller keeps the
\* final status it was given.
Retire(r) ==
    LET R == runs[r]
        E == Run("retired", R.mode, R.taskId, R.sessionId, R.userMessage,
                 TaskPlan(<<>>, FALSE, None))
    IN  /\ R.pc = "done"
        /\ runs' = [runs EXCEPT ![r] = [E EXCEPT !.out = <<R.out[Len(R.out)]>>]]
        /\ UNCHANGED <<agents, agentsByCapability, conversations, probe>>

----------------------------------------------------------------------------
(* The session's requests                                                  *)

\* The first request carries task id T1; a later one carries the same id (the
\* client answering under the task it was asked in) or a new one.
TaskIds(r) == IF r = 1 THEN {T1} ELSE {T1, T2}

RunIds == 1..MaxRuns

IdleRun(mode) == Run("idle", mode, <<>>, Session, UserMessage(<<>>),
                     TaskPlan(<<>>, FALSE, None))

Init ==
    /\ agents = Registry
    /\ agentsByCapability = RegistryIndex
    /\ conversations = [c \in {} |-> Conversation]
    /\ runs = [r \in RunIds |-> IdleRun("handler")]
    /\ probe = <<>>

Steps ==
    \/ \E r \in RunIds : PlanExecution(r)
    \/ \E r \in RunIds : Oracle(r)
    \/ \E r \in RunIds : ExecStart(r)
    \/ \E r \in RunIds : DispatchStep(r)
    \/ \E r \in RunIds, k \in PlanNames : Arrive(r, k)
    \/ \E r \in RunIds : HandleEvent(r)
    \/ \E r \in RunIds : AfterLoop(r)
    \/ \E r \in RunIds : CatchExec(r)
    \/ \E r \in RunIds : Integrate(r)
    \/ \E r \in RunIds : FwdOpen(r)
    \/ \E r \in RunIds : FwdArrive(r)
    \/ \E r \in RunIds : Retire(r)
    \/ \E r \in RunIds : Cancel(r)

\* One request at a time for the session.
NoneInFlight == \A q \in RunIds : runs[q].pc \in {"idle", "retired"}

Next ==
    \/ \E r \in RunIds : \E t \in TaskIds(r) : NoneInFlight /\ HandleRequest(r, t)
    \/ Steps

Spec == Init /\ [][Next]_vars

\* Requests for the session may overlap.
InitConc ==
    /\ agents = Registry
    /\ agentsByCapability = RegistryIndex
    /\ conversations = [c \in {} |-> Conversation]
    /\ runs = [r \in RunIds |-> IdleRun("overlap")]
    /\ probe = <<>>

NextConc ==
    \/ \E r \in RunIds : \E t \in TaskIds(r) : HandleRequest(r, t)
    \/ Steps

SpecConc == InitConc /\ [][NextConc]_vars

----------------------------------------------------------------------------
(* ConversationMemory called operation by operation                        *)

ConvIds == {"s1", "s2"}
MemAgents == {NameA, NameB}
MemSubTaskIds == {generateSubTaskId(T1, NameA), generateSubTaskId(T1, NameB)}

InitMem ==
    /\ agents = <<>>
    /\ agentsByCapability = <<>>
    /\ runs = <<>>
    /\ conversations = [c \in {} |-> Conversation]
    /\ probe = [sets |-> [c \in ConvIds |-> <<>>], threw |-> FALSE]

MemCreate(id) ==
    /\ conversations' = createConversation(conversations, id)
    /\ probe' = [probe EXCEPT !.sets[id] = <<>>, !.threw = FALSE]
    /\ UNCHANGED <<agents, agentsByCapability, runs>>

MemAddUserMessage(id, m) ==
    /\ IF addUserMessageThrows(conversations, id)
       THEN /\ probe' = [probe EXCEPT !.threw = TRUE]
            /\ UNCHANGED conversations
       ELSE /\ Len(conversations[id].turns) < MaxRuns
            /\ conversations' = addUserMessage(conversations, id, UserMessage(m), T1)
            /\ probe' = [probe EXCEPT !.threw = FALSE]
    /\ UNCHANGED <<agents, agentsByCapability, runs>>

MemSetInputRequiredState(id, agentName, subTaskId) ==
    /\ IF setInputRequiredStateThrows(conversations, id)
       THEN /\ probe' = [probe EXCEPT !.threw = TRUE]
            /\ UNCHANGED conversations
       ELSE /\ Len(probe.sets[id]) < MaxSets
            /\ conversations' = setInputRequiredState(conversations, id, agentName, subTaskId)
            /\ probe' = [probe EXCEPT !.threw = FALSE,
                    !.sets[id] = Append(@, InputRequiredState(agentName, subTaskId))]
    /\ UNCHANGED <<agents, agentsByCapability, runs>>

MemClearInputRequiredState(id) ==
    /\ conversations' = clearInputRequiredState(conversations, id)
    /\ probe' = [probe EXCEPT !.sets[id] = <<>>, !.threw = FALSE]
    /\ UNCHANGED <<agents, agentsByCapability, runs>>

NextMem ==
    \E id \in ConvIds :
        \/ MemCreate(id)
        \/ \E m \in {"m1", "m2"} : MemAddUserMessage(id, m)
        \/ \E a \in MemAgents, t \in MemSubTaskIds : MemSetInputRequiredState(id, a, t)
        \/ MemClearInputRequiredState(id)

SpecMem == InitMem /\ [][NextMem]_vars

----------------------------------------------------------------------------
(* ConversationMemory: one call at a time, with the store before the call  *)

MaxStoreTurns == 2      \* turns added to a conversation
MaxStoreSubTasks == 1   \* sub-task records added to a turn

StoreOps == {"createConversation", "getConversation", "addUserMessage",
             "addAgentResponse", "setInputRequiredState",
             "clearInputRequiredState", "addSubTaskInfo"}

StoreMessages == {"m1", "m2"}

\* probe: the last call (op, id), whether id was a key of the store when it
\* was made, whether it threw, what it returned, and the store before it.
StoreCall(op, id, threw, result) ==
    [op |-> op, id |-> id, known |-> id \in DOMAIN conversations,
     threw |-> threw, result |-> result, before |-> conversations]

InitStore ==
    /\ agents = <<>>
    /\ agentsByCapability = <<>>
    /\ runs = <<>>
    /\ conversations = [c \in {} |-> Conversation]
    /\ probe = StoreCall("none", "s1", FALSE, None)

StoreCreate(id) ==
    /\ conversations' = createConversation(conversations, id)
    /\ probe' = StoreCall("createConversation", id, FALSE, None)
    /\ UNCHANGED <<agents, agentsByCapability, runs>>

StoreGet(id) ==
    /\ probe' = StoreCall("getConversation", id, FALSE, getConversation(conversations, id))
    /\ UNCHANGED <<agents, agentsByCapability, runs, conversations>>

StoreAddUserMessage(id, m) ==
    /\ IF addUserMessageThrows(conversations, id)
       THEN /\ probe' = StoreCall("addUserMessage", id, TRUE, None)
            /\ UNCHANGED conversations
       ELSE /\ Len(conversations[id].turns) < MaxStoreTurns
            /\ conversations' = addUserMessage(conversations, id, UserMessage(m), T1)
            /\ probe' = StoreCall("addUserMessage", id, FALSE, None)
    /\ UNCHANGED <<agents, agentsByCapability, runs>>

StoreAddAgentResponse(id) ==
    /\ IF addAgentResponseThrows(conversations, id)
       THEN /\ probe' = StoreCall("addAgentResponse", id, TRUE, None)
            /\ UNCHANGED conversations
       ELSE /\ conversations' = addAgentResponse(conversations, id, "r1")
            /\ probe' = StoreCall("addAgentResponse", id, FALSE, None)
    /\ UNCHANGED <<agents, agentsByCapability, runs>>

StoreSetInputRequiredStateUpsert(id) ==
    /\ conversations' = setInputRequiredState(
            IF id \in DOMAIN conversations THEN conversations
            ELSE createConversation(conversations, id),
            id, NameB, generateSubTaskId(T1, NameB))
    /\ probe' = StoreCall("setInputRequiredState", id, FALSE, None)
    /\ UNCHANGED <<agents, agentsByCapability, runs>>

StoreSetInputRequiredState(id) ==
    /\ IF setInputRequiredStateThrows(conversations, id)
       THEN /\ probe' = StoreCall("setInputRequiredState", id, TRUE, None)
            /\ UNCHANGED conversations
       ELSE /\ conversations' = setInputRequiredState(conversations, id, NameB,
                                    generateSubTaskId(T1, NameB))
            /\ probe' = StoreCall("setInputRequiredState", id, FALSE, None)
    /\ UNCHANGED <<agents, agentsByCapability, runs>>

\* clearInputRequiredState returns silently for an unknown id.
StoreClearInputRequiredState(id) ==
    /\ conversations' = clearInputRequiredState(conversations, id)
    /\ probe' = StoreCall("clearInputRequiredState", id, FALSE, None)
    /\ UNCHANGED <<agents, agentsByCapability, runs>>

StoreAddSubTaskInfo(id) ==
    /\ IF addSubTaskInfoThrows(conversations, id)
       THEN /\ probe' = StoreCall("addSubTaskInfo", id, TRUE, None)
            /\ UNCHANGED conversations
       ELSE /\ Len(conversations[id].turns[Len(conversations[id].turns)].subTasks)
                    < MaxStoreSubTasks
            /\ conversations' = addSubTaskInfo(conversations, id, NameB,
                                    generateSubTaskId(T1, NameB), TRUE)
            /\ probe' = StoreCall("addSubTaskInfo", id, FALSE, None)
    /\ UNCHANGED <<agents, agentsByCapability, runs>>

NextStore ==
    \/ \E id \in ConvIds : StoreCreate(id)
    \/ \E id \in ConvIds : StoreGet(id)
    \/ \E id \in ConvIds, m \in StoreMessages : StoreAddUserMessage(id, m)
    \/ \E id \in ConvIds : StoreAddAgentResponse(id)
    \/ \E id \in ConvIds : StoreSetInputRequiredState(id)
    \/ \E id \in ConvIds : StoreClearInputRequiredState(id)
    \/ \E id \in ConvIds : StoreAddSubTaskInfo(id)

SpecStore == InitStore /\ [][NextStore]_vars

----------------------------------------------------------------------------
(* generateSubTaskId called on its own                                     *)

StringsUpTo(S, n) == UNION {[1..m -> S] : m \in 1..n}
ProbeParents == StringsUpTo({"T", "-"}, MaxProbeLen)
ProbeNames == StringsUpTo({"M", " ", "-"}, MaxProbeLen)

InitId ==
    /\ agents = <<>>
    /\ agentsByCapability = <<>>
    /\ runs = <<>>
    /\ conversations = <<>>
    /\ \E p \in ProbeParents, q \in ProbeParents, a \in ProbeNames :
          probe = [p |-> p, q |-> q, a |-> a, out |-> <<>>]

\* A fresh dispatch of agent probe.a under the parent task id parent.
ProbeDispatch(parent) ==
    /\ Len(probe.out) < MaxDispatches
    /\ probe' = [probe EXCEPT !.out = Append(@,
            [parent |-> parent, id |-> generateSubTaskId(parent, probe.a)])]
    /\ UNCHANGED <<agents, agentsByCapability, runs, conversations>>

NextId == ProbeDispatch(probe.p) \/ ProbeDispatch(probe.q)

SpecId == InitId /\ [][NextId]_vars

----------------------------------------------------------------------------
(* generateSubTaskId called for two (parent task id, agent name) pairs     *)

InitIdPair ==
    /\ agents = <<>>
    /\ agentsByCapability = <<>>
    /\ runs = <<>>
    /\ conversations = <<>>
    /\ \E p \in ProbeParents, q \in ProbeParents, a \in ProbeNames, b \in ProbeNames :
          probe = [p |-> p, q |-> q, a |-> a, b |-> b, ids |-> None]

\* Lines 166-168 for the two pairs: the ids the two sub-tasks are given.
DeriveIds ==
    /\ probe.ids = None
    /\ probe' = [probe EXCEPT !.ids = Some([first |-> generateSubTaskId(probe.p, probe.a),
                                            second |-> generateSubTaskId(probe.q, probe.b)])]
    /\ UNCHANGED <<agents, agentsByCapability, runs, conversations>>

NextIdPair == DeriveIds

SpecIdPair == InitIdPair /\ [][NextIdPair]_vars

----------------------------------------------------------------------------
(* AgentRegistry called operation by operation                             *)

\* An agent card: its name and the ids, names and tags of its skills. The
\* cards carry no descriptions, so extractKeywords adds nothing.
AgentCard(name, skills) == [name |-> name, skills |-> skills]

\* extractCapabilities: the lower-cased skill ids, names and tags, as a set.
extractCapabilities(card) == {toLowerCase(t) : t \in card.skills}

findAgentsByCapabilitiesAnyStatus(capabilities) ==
    UNION {agentsByCapability[c] :
            c \in {x \in DOMAIN agentsByCapability :
                    \E k \in 1..Len(capabilities) :
                        includes(x, toLowerCase(capabilities[k]))}}

\* findAgentsByCapabilities: the ids of the agents returned (the order of
\* the returned array is not modelled).
findAgentsByCapabilities(capabilities) ==
    LET matchingAgentIds ==
            UNION {agentsByCapability[c] :
                    c \in {x \in DOMAIN agentsByCapability :
                            \E k \in 1..Len(capabilities) :
                                includes(x, toLowerCase(capabilities[k]))}}
    IN  {id \in matchingAgentIds :
            \E i \in 1..Len(agents) : agents[i].id = id /\ agents[i].status = "active"}

Urls == {<<"u", ":", "1">>, <<"u", "-", "1">>, <<"u", ":", "2">>}
Cards == {AgentCard(NameA, {<<"A", "B">>}),
          AgentCard(NameB, {<<"B">>, <<"M">>}),
          AgentCard(NameA, {<<"M">>})}
Queries == {<<>>, <<<<"A">>>>, <<<<"b">>>>, <<<<"Z">>>>, <<<<"A", "B">>>>,
            <<<<"Z">>, <<"M">>>>}

InitReg ==
    /\ agents = <<>>
    /\ agentsByCapability = <<>>
    /\ conversations = <<>>
    /\ runs = <<>>
    /\ probe = [capabilities |-> <<>>, found |-> {}]

\* addAgent: fetched is the card client.agentCard() gave, or None when the
\* fetch failed (lines 254-257: null is returned).
AddAgent(url, fetched) ==
    /\ IF ~IsSome(fetched)
       THEN UNCHANGED <<agents, agentsByCapability>>
       ELSE LET card == The(fetched)
                id == generateAgentId(url)
                capabilities == extractCapabilities(card)
                agent == [id |-> id, name |-> card.name, url |-> url,
                          capabilities |-> capabilities, status |-> "active"]
            IN  /\ agents' = agentsSet(agents, id, agent)
                /\ agentsByCapability' =
                        indexCapabilities(agentsByCapability, capabilities, id)
    /\ UNCHANGED <<conversations, runs, probe>>

\* checkAgentsHealth, lines 364-374: the probe of agent i has resolved.
CheckAgentHealth(i, reachable) ==
    /\ i \in 1..Len(agents)
    /\ agents' = [agents EXCEPT ![i].status =
                    IF reachable THEN "active" ELSE "unreachable"]
    /\ UNCHANGED <<agentsByCapability, conversations, runs, probe>>

FindAgents(capabilities) ==
    /\ probe' = [capabilities |-> capabilities,
                 found |-> findAgentsByCapabilities(capabilities)]
    /\ UNCHANGED <<agents, agentsByCapability, conversations, runs>>

NextReg ==
    \/ \E url \in Urls, fetched \in {None} \cup {Some(c) : c \in Cards} :
          AddAgent(url, fetched)
    \/ \E i \in 1..2, reachable \in BOOLEAN : CheckAgentHealth(i, reachable)
    \/ \E q \in Queries : FindAgents(q)

SpecReg == InitReg /\ [][NextReg]_vars

----------------------------------------------------------------------------
(* TaskRouter.analyzeRequest called on its own                             *)

\* The fields of a plan beside those of TaskPlan.
PlanDetails(taskDescription, subTasks, executionOrder, needsCoordination) ==
    [taskDescription |-> taskDescription, subTasks |-> subTasks,
     executionOrder |-> executionOrder, needsCoordination |-> needsCoordination]

\* new Map(entries): the instruction of each name.
subTasksMap(names, instruction) == [n \in SeqToSet(names) |-> instruction]

\* analyzeRequest: answer is what the planning oracle does when it is asked:
\* it throws, it returns text without a JSON object, or it returns an object
\* with selectedAgents and isMultiAgentTask (the other fields left to their
\* defaults). The result is the plan and the number of oracle calls made.
analyzeRequest(userText, availableAgents, lastInputRequiredState, answer) ==
    IF IsSome(lastInputRequiredState)
       /\ agentStillAvailable(availableAgents, The(lastInputRequiredState))
    THEN [plan |-> continuationPlan(The(lastInputRequiredState))
                   @@ PlanDetails("continuing",
                        subTasksMap(<<The(lastInputRequiredState).inputRequiredAgent>>,
                                    "continuing"),
                        "parallel", FALSE),
          oracleCalls |-> 0]
    ELSE IF answer.kind = "json"
    THEN [plan |-> TaskPlan(answer.selectedAgents, answer.isMultiAgentTask, None)
                   @@ PlanDetails(userText, <<>>, "parallel", FALSE),
          oracleCalls |-> 1]
    ELSE [plan |-> fallbackPlan(availableAgents)
                   @@ PlanDetails(userText,
                        subTasksMap(agentNames(availableAgents), userText),
                        "parallel", Len(availableAgents) > 1),
          oracleCalls |-> 1]

PlanAgents == {ManagedAgent("agent-a", NameA, "active"),
               ManagedAgent("agent-b", NameB, "active"),
               ManagedAgent("agent-b2", toLowerCase(NameB), "active")}

OracleAnswers ==
    {[kind |-> "throws"], [kind |-> "unparsable"]}
    \cup {[kind |-> "json", selectedAgents |-> sel, isMultiAgentTask |-> multi] :
            sel \in {<<>>, <<NameA>>, <<NameA, NameB>>}, multi \in BOOLEAN}

InitPlan ==
    /\ agents = <<>>
    /\ agentsByCapability = <<>>
    /\ conversations = <<>>
    /\ runs = <<>>
    /\ \E userText \in {"m1", "m2"}, available \in SeqsUpTo(PlanAgents, 2),
          lastState \in {None, Some(InputRequiredState(NameB, WaitingId)),
                         Some(InputRequiredState(NameZ, WaitingId))},
          answer \in OracleAnswers :
          probe = [userText |-> userText, availableAgents |-> available,
                   lastInputRequiredState |-> lastState, answer |-> answer,
                   analysed |-> None]

AnalyzeRequest ==
    /\ probe.analysed = None
    /\ probe' = [probe EXCEPT !.analysed =
            Some(analyzeRequest(probe.userText, probe.availableAgents,
                                probe.lastInputRequiredState, probe.answer))]
    /\ UNCHANGED <<agents, agentsByCapability, conversations, runs>>

NextPlan == AnalyzeRequest

SpecPlan == InitPlan /\ [][NextPlan]_vars

----------------------------------------------------------------------------
(* AgentRegistry.checkAgentsHealth, probe by probe                         *)

HealthAgents == <<ManagedAgent("agent-a", NameA, "active"),
                  ManagedAgent("agent-b", NameB, "active"),
                  ManagedAgent("agent-z", NameZ, "active")>>

\* probe: the phase of the operation, the agents whose agentCard() call is
\* not yet answered, the answer each other one got, and the registry as it
\* was when the operation was called.
HealthCheck(phase, pending, outcome, before) ==
    [phase |-> phase, pending |-> pending, outcome |-> outcome, before |-> before]

InitHealth ==
    /\ agentsByCapability = <<>>
    /\ conversations = <<>>
    /\ runs = <<>>
    /\ \E n \in 0..Len(HealthAgents) :
          \E status \in [1..n -> {"active", "unreachable"}] :
              agents = [i \in 1..n |-> [HealthAgents[i] EXCEPT !.status = status[i]]]
    /\ probe = HealthCheck("idle", {}, <<>>, <<>>)

\* Lines 360-375: every agent's check is started; each runs up to its await.
checkAgentsHealth ==
    /\ probe.phase \in {"idle", "completed"}
    /\ probe' = HealthCheck("checking", {agents[i].id : i \in 1..Len(agents)},
                            <<>>, agents)
    /\ UNCHANGED <<agents, agentsByCapability, conversations, runs>>

ProbeResolvedRejects(id, reachable) ==
    /\ probe.phase = "checking"
    /\ id \in probe.pending
    /\ IF reachable
       THEN /\ agents' = [i \in 1..Len(agents) |->
                            IF agents[i].id = id
                            THEN [agents[i] EXCEPT !.status = "active"]
                            ELSE agents[i]]
            /\ probe' = [probe EXCEPT !.pending = @ \ {id},
                                      !.outcome = (id :> reachable) @@ @]
       ELSE /\ UNCHANGED agents
            /\ probe' = [probe EXCEPT !.phase = "failed", !.pending = @ \ {id},
                                      !.outcome = (id :> reachable) @@ @]
    /\ UNCHANGED <<agentsByCapability, conversations, runs>>

\* Lines 365-372: agentCard() of agent id answered or threw.
ProbeResolved(id, reachable) ==
    /\ probe.phase = "checking"
    /\ id \in probe.pending
    /\ agents' = [i \in 1..Len(agents) |->
                    IF agents[i].id = id
                    THEN [agents[i] EXCEPT !.status =
                            IF reachable THEN "active" ELSE "unreachable"]
                    ELSE agents[i]]
    /\ probe' = [probe EXCEPT !.pending = @ \ {id},
                              !.outcome = (id :> reachable) @@ @]
    /\ UNCHANGED <<agentsByCapability, conversations, runs>>

\* Line 377: Promise.all resolves once every check has finished.
HealthCompleted ==
    /\ probe.phase = "checking"
    /\ probe.pending = {}
    /\ probe' = [probe EXCEPT !.phase = "completed"]
    /\ UNCHANGED <<agents, agentsByCapability, conversations, runs>>

NextHealth ==
    \/ checkAgentsHealth
    \/ \E i \in 1..Len(HealthAgents), reachable \in BOOLEAN :
          ProbeResolved(HealthAgents[i].id, reachable)
    \/ HealthCompleted

SpecHealth == InitHealth /\ [][NextHealth]_vars

----------------------------------------------------------------------------
(* AgentRegistry.addAgent, with descriptors that miss fields               *)

\* What client.agentCard() gives: None when the call throws, otherwise Some
\* descriptor. A field that the JSON does not carry is None (undefined); a
\* skill is its id, or None when the skill has no id.
Descriptor(name, skills) == [name |-> name, skills |-> skills]

Descriptors ==
    {Descriptor(n, k) :
        n \in {None, Some(NameA), Some(NameB)},
        k \in {None, Some({}), Some({Some(<<"A", "B">>)}),
               Some({Some(<<"M">>), None})}}

wellFormed(d) ==
    /\ IsSome(d.name)
    /\ IsSome(d.skills)
    /\ \A k \in The(d.skills) : IsSome(k)

\* probe: the last call (its address, what the fetch gave, what it returned,
\* whether it raised) and the two maps as they were before it.
InitAdd ==
    /\ agents = <<>>
    /\ agentsByCapability = <<>>
    /\ conversations = <<>>
    /\ runs = <<>>
    /\ probe = [called |-> FALSE, url |-> <<>>, fetched |-> None,
                returned |-> None, raised |-> FALSE,
                before |-> [agents |-> <<>>, index |-> <<>>]]

AddAgentCall(url, fetched) ==
    LET call == addAgent(url, fetched, agents, agentsByCapability)
    IN  /\ agents' = call.agents
        /\ agentsByCapability' = call.index
        /\ probe' = [called |-> TRUE, url |-> url, fetched |-> fetched,
                     returned |-> call.returned, raised |-> call.raised,
                     before |-> [agents |-> agents, index |-> agentsByCapability]]
        /\ UNCHANGED <<conversations, runs>>

NextAdd ==
    \E url \in Urls :
        \/ AddAgentCall(url, None)
        \/ \E d \in Descriptors : AddAgentCall(url, Some(d))

SpecAdd == InitAdd /\ [][NextAdd]_vars

----------------------------------------------------------------------------
(* ConversationMemory.getConversationSummary called on its own             *)

MaxSummaryTurns == 2
MaxTurnsArgument == 3

TextPart(text) == [type |-> "text", text |-> text]
DataPart == [type |-> "data", text |-> <<>>]

\* parts.filter(part => 'text' in part).map(part => part.text).join('\n')
RECURSIVE joinTextParts(_)
joinTextParts(parts) ==
    LET texts == SelectSeq(parts, LAMBDA part : part.type = "text")
    IN  IF texts = <<>> THEN <<>>
        ELSE IF Len(texts) = 1 THEN texts[1].text
        ELSE texts[1].text \o <<"\n">> \o joinTextParts(Tail(texts))

\* Array.prototype.slice(start): a negative start counts from the end, and
\* -0 is 0.
slice(array, start) ==
    LET len == Len(array)
        k == IF start < 0
             THEN (IF len + start > 0 THEN len + start ELSE 0)
             ELSE (IF start < len THEN start ELSE len)
    IN  SubSeq(array, k + 1, len)

NoResponse == <<"No response">>

\* getConversationSummary: history is FALSE for "No conversation history.",
\* otherwise blocks holds, in order, what each `Turn n: User: .. Agent: ..`
\* block of the returned text is made of.
getConversationSummary(convs, conversationId, maxTurns) ==
    IF conversationId \notin DOMAIN convs \/ Len(convs[conversationId].turns) = 0
    THEN [history |-> FALSE, blocks |-> <<>>]
    ELSE LET recentTurns == slice(convs[conversationId].turns, 0 - maxTurns)
         IN  [history |-> TRUE,
              blocks |-> [index \in 1..Len(recentTurns) |->
                  LET turn == recentTurns[index]
                      userText == joinTextParts(turn.userMessage)
                      agentText ==
                          IF IsSome(turn.agentResponse)
                                /\ joinTextParts(The(turn.agentResponse)) # <<>>
                          THEN joinTextParts(The(turn.agentResponse))
                          ELSE NoResponse
                  IN  [turn |-> index, user |-> userText, agent |-> agentText]]]

SummaryMessages ==
    {<<>>, <<DataPart>>, <<TextPart(<<"A">>)>>, <<TextPart(<<"B">>)>>,
     <<TextPart(<<"A">>), DataPart, TextPart(<<"B">>)>>}
SummaryResponses == {None, Some(<<>>), Some(<<TextPart(<<"M">>)>>)}
SummaryTurns ==
    {[userMessage |-> m, agentResponse |-> a] :
        m \in SummaryMessages, a \in SummaryResponses}

\* probe: the last call's arguments and what it returned.
InitSummary ==
    /\ agents = <<>>
    /\ agentsByCapability = <<>>
    /\ runs = <<>>
    /\ \E n \in 0..MaxSummaryTurns :
          \E turns \in [1..n -> SummaryTurns] :
              conversations = ("s1" :> [turns |-> turns, lastState |-> None])
    /\ probe = [called |-> FALSE, conversationId |-> "s1", maxTurns |-> 0,
                summary |-> [history |-> FALSE, blocks |-> <<>>]]

GetConversationSummary(conversationId, maxTurns) ==
    /\ probe' = [called |-> TRUE, conversationId |-> conversationId,
                 maxTurns |-> maxTurns,
                 summary |-> getConversationSummary(conversations,
                                                    conversationId, maxTurns)]
    /\ UNCHANGED <<agents, agentsByCapability, conversations, runs>>

NextSummary ==
    \E conversationId \in ConvIds, maxTurns \in 0..MaxTurnsArgument :
        GetConversationSummary(conversationId, maxTurns)

SpecSummary == InitSummary /\ [][NextSummary]_vars

----------------------------------------------------------------------------
(* planExecution's choice of agents, then executeTaskPlan's resolution     *)

MaxResolveAgents == 2

NameAB == <<"A", "B">>

\* Registries of up to MaxResolveAgents agents, each active or unreachable;
\* two agents registered under different addresses may declare one name.
ResolveRegistries ==
    UNION {{[i \in 1..n |-> ManagedAgent(<<"agent", i>>, name[i], status[i])] :
                name \in [1..n -> {NameA, NameB, NameAB}],
                status \in [1..n -> {"active", "unreachable"}]} :
           n \in 1..MaxResolveAgents}

\* Lines 79-93 of planExecution: the planner is given the active agents, and
\* the plan selects some of their names (all of them in the fallback plan).
ResolvePlans ==
    {TaskPlan(sel, Len(sel) > 1, None) :
        sel \in {q \in SeqsUpTo(SeqToSet(agentNames(ActiveAgents)), MaxResolveAgents) :
                    q # <<>> /\ \A i, j \in 1..Len(q) : q[i] = q[j] => i = j}}

\* probe: the plan built, and the agents executeTaskPlan resolved it to.
InitResolve ==
    /\ agents \in ResolveRegistries
    /\ agentsByCapability = <<>>
    /\ conversations = <<>>
    /\ runs = <<>>
    /\ probe = [plan |-> None, resolved |-> None]

PlanFromActive ==
    /\ probe.plan = None
    /\ \E plan \in ResolvePlans : probe' = [probe EXCEPT !.plan = Some(plan)]
    /\ UNCHANGED <<agents, agentsByCapability, conversations, runs>>

\* Lines 113-122 of executeTaskPlan.
ResolvePlan ==
    /\ IsSome(probe.plan)
    /\ probe.resolved = None
    /\ probe' = [probe EXCEPT !.resolved =
                    Some(resolveSelected(The(probe.plan).selectedAgents, <<>>))]
    /\ UNCHANGED <<agents, agentsByCapability, conversations, runs>>

NextResolve == PlanFromActive \/ ResolvePlan

SpecResolve == InitResolve /\ [][NextResolve]_vars

----------------------------------------------------------------------------
(* Claims                                                                  *)

Range(f) == {f[x] : x \in DOMAIN f}

\* How often the event of stream k at position i was handed to the consumer.
TimesYielded(R, k, i) ==
    Cardinality({j \in 1..Len(R.yielded) :
                    R.yielded[j].agentName = k /\ R.yielded[j].index = i})

\* Every opened stream produced events that are not input-required, then ended.
AllStreamsEnded(R) ==
    \A k \in DOMAIN R.streams :
        /\ R.streams[k].fin = "ended"
        /\ "input-required" \notin Range(R.streams[k].items)

\* C1: when executeTaskPlan has returned and every dispatched stream produced
\* finitely many events, none of them input-required, and then ended, every
\* produced event was yielded exactly once, tagged with its agent, and the
\* live set is empty.
C1_FanInComplete ==
    \A r \in DOMAIN runs :
        (runs[r].mode = "direct" /\ runs[r].pc = "exec_done" /\ AllStreamsEnded(runs[r]))
        => /\ runs[r].activeStreams = {}
           /\ \A k \in DOMAIN runs[r].streams :
                \A i \in 1..Len(runs[r].streams[k].items) :
                    TimesYielded(runs[r], k, i) = 1

\* C2: a stream of the live set never has more than one next() that is not
\* yet answered.
C2_OnePullPerStream ==
    \A r \in DOMAIN runs :
        runs[r].mode = "direct" =>
            \A k \in runs[r].activeStreams : runs[r].streams[k].pending <= 1

Yielded(R, k, event) ==
    \E j \in 1..Len(R.yielded) :
        R.yielded[j].agentName = k /\ R.yielded[j].event = event

\* C3: A and B dispatched by one fresh plan, A's stream produces one completed
\* event and B's one input-required event: when executeTaskPlan has returned,
\* both events were yielded under their agent names and lastState names B
\* with B's sub-task id.
C3_EndToEndSuspension ==
    \A r \in DOMAIN runs :
        (/\ runs[r].mode = "direct"
         /\ runs[r].pc = "exec_done"
         /\ ~isResumingInputRequiredTask(runs[r].plan)
         /\ DOMAIN runs[r].streams = {NameA, NameB}
         /\ runs[r].streams[NameA].items = <<"completed">>
         /\ runs[r].streams[NameB].items = <<"input-required">>)
        => /\ Yielded(runs[r], NameA, "completed")
           /\ Yielded(runs[r], NameB, "input-required")
           /\ conversations[runs[r].sessionId].lastState =
                Some(InputRequiredState(NameB, runs[r].streams[NameB].id))

ProducedInputRequired(R) ==
    \E k \in DOMAIN R.streams : "input-required" \in Range(R.streams[k].items)

\* C4: a handled request during which a dispatched stream produced an
\* input-required event, and which was not canceled, ends with the status
\* input-required and without integrateAgentResponses having been called.
C4_SuspensionReported ==
    \A r \in DOMAIN runs :
        (/\ runs[r].mode = "handler"
         /\ runs[r].pc = "done"
         /\ runs[r].out[Len(runs[r].out)] # "canceled"
         /\ ProducedInputRequired(runs[r]))
        => /\ runs[r].out[Len(runs[r].out)] = "input-required"
           /\ runs[r].integrations = 0

LatestUserMessage(c) == conversations[c].turns[Len(conversations[c].turns)].userMessage

\* C5: executeTaskPlan given a plan that carries waitingSubTaskId = X opens
\* the stream with id X and with the conversation's latest user message, and
\* calls generateSubTaskPrompt for no agent.
C5_ResumptionFidelity ==
    \A r \in DOMAIN runs :
        (runs[r].mode = "direct" /\ isResumingInputRequiredTask(runs[r].plan))
        => /\ runs[r].prompts = <<>>
           /\ \A i \in 1..Len(runs[r].opened) :
                /\ runs[r].opened[i].id = The(runs[r].plan.waitingSubTaskId)
                /\ runs[r].opened[i].message = LatestUserMessage(runs[r].sessionId)

C5_Witness ==
    \E r \in DOMAIN runs :
        /\ runs[r].mode = "direct"
        /\ isResumingInputRequiredTask(runs[r].plan)
        /\ \E i \in 1..Len(runs[r].opened) :
              /\ runs[r].opened[i].agentName = NameB
              /\ runs[r].opened[i].ok
              /\ runs[r].opened[i].id # generateSubTaskId(runs[r].taskId, NameB)
        /\ Yielded(runs[r], NameB, "completed")

\* C6: the id given to getTask for a sub-task that reached a terminal status
\* is the id that agent's stream was opened with in the same run.
C6_LookupIdIsStreamId ==
    \A r \in DOMAIN runs :
        \A i \in 1..Len(runs[r].getTaskCalls) :
            LET call == runs[r].getTaskCalls[i]
            IN  /\ call.agentName \in DOMAIN runs[r].streams
                /\ call.id = runs[r].streams[call.agentName].id

\* C7: dispatches of one agent name get the same sub-task id exactly when
\* they are made under the same parent task id.
C7_DeterministicIdentity ==
    (DOMAIN probe = {"p", "q", "a", "out"}) =>
        \A i, j \in 1..Len(probe.out) :
            (probe.out[i].parent = probe.out[j].parent)
                <=> (probe.out[i].id = probe.out[j].id)

C7_Witness ==
    /\ DOMAIN probe = {"p", "q", "a", "out"}
    /\ probe.p # probe.q
    /\ \E i, j, k \in 1..Len(probe.out) :
          /\ i # j
          /\ probe.out[i].parent = probe.p /\ probe.out[j].parent = probe.p
          /\ probe.out[k].parent = probe.q
    /\ \E n \in 1..Len(probe.a) : probe.a[n] = " "

\* The sub-task that waited is the one whose stream was opened with the
\* stored id; it reached a terminal status if that stream produced one.
ResumedTerminal(R) ==
    \/ /\ IsSome(R.forward)
       /\ \E k \in DOMAIN R.streams : Range(R.streams[k].items) \cap TerminalStates # {}
    \/ /\ isResumingInputRequiredTask(R.plan)
       /\ \E k \in DOMAIN R.streams :
             /\ R.streams[k].id = The(R.plan.waitingSubTaskId)
             /\ \E j \in 1..Len(R.yielded) :
                   R.yielded[j].agentName = k /\ R.yielded[j].event \in TerminalStates

\* C8: a request that resumed the suspended sub-task, by forwarding or by a
\* plan that carries waitingSubTaskId, and whose resumed sub-task reached a
\* terminal status, ends with no lastState in the conversation.
C8_SuspensionCleared ==
    \A r \in DOMAIN runs :
        (runs[r].pc = "done" /\ ResumedTerminal(runs[r]))
        => conversations[runs[r].sessionId].lastState = None

\* C9: a conversation holds at most one lastState, and after calls of
\* setInputRequiredState it is the one the last call gave.
C9_SingleSlot ==
    (DOMAIN probe = {"sets", "threw"}) =>
        \A c \in DOMAIN conversations :
            /\ Len(conversations[c].lastState) <= 1
            /\ probe.sets[c] # <<>> =>
                 conversations[c].lastState = Some(probe.sets[c][Len(probe.sets[c])])

C9_Witness ==
    /\ DOMAIN probe = {"sets", "threw"}
    /\ \E c \in DOMAIN conversations :
          /\ Len(probe.sets[c]) = 2
          /\ probe.sets[c][1].inputRequiredAgent # probe.sets[c][2].inputRequiredAgent
          /\ conversations[c].lastState = Some(probe.sets[c][2])

DispatchOver(R) == R.pc \in {"mux_wait", "yielded", "exec_done"}

CurrentSubTasks(c) == conversations[c].turns[Len(conversations[c].turns)].subTasks

\* C10: once dispatch is over, every resolved agent has had its stream
\* opened or its failure recorded: a failed one has a record with success
\* false on the current turn and no stream; every other one has its stream,
\* which is in the live set or has been asked for an event.
C10_DispatchIsolation ==
    \A r \in DOMAIN runs :
        (runs[r].mode = "direct" /\ DispatchOver(runs[r])) =>
            \A i \in 1..Len(runs[r].agentsByName) :
                LET name == runs[r].agentsByName[i].agentName
                    calls == {j \in 1..Len(runs[r].opened) :
                                runs[r].opened[j].agentName = name}
                IN  /\ Cardinality(calls) = 1
                    /\ \A j \in calls :
                        IF runs[r].opened[j].ok
                        THEN /\ name \in DOMAIN runs[r].streams
                             /\ \/ name \in runs[r].activeStreams
                                \/ runs[r].streams[name].fin # "open"
                                \/ runs[r].streams[name].items # <<>>
                        ELSE /\ name \notin DOMAIN runs[r].streams
                             /\ name \notin runs[r].activeStreams
                             /\ \E n \in 1..Len(CurrentSubTasks(runs[r].sessionId)) :
                                   CurrentSubTasks(runs[r].sessionId)[n] =
                                       [agentName |-> name, taskId |-> runs[r].opened[j].id,
                                        success |-> FALSE]

C10_Witness ==
    \E r \in DOMAIN runs :
        /\ runs[r].mode = "direct"
        /\ runs[r].pc = "exec_done"
        /\ \E i, j \in 1..Len(runs[r].opened) :
              /\ i < j
              /\ runs[r].opened[i].ok /\ ~runs[r].opened[j].ok
              /\ Yielded(runs[r], runs[r].opened[i].agentName, "completed")

NoneResolves(R) ==
    /\ R.plan.selectedAgents # <<>>
    /\ resolveSelected(R.plan.selectedAgents, <<>>) = <<>>

LastOut(R) == R.out[Len(R.out)]

\* C11: when none of the plan's selected names resolves, the step of
\* executeTaskPlan opens no stream, appends no dispatch record and leaves the
\* conversations (lastState included) as they are, and the handler's next
\* step ends the request with the status failed, again without touching the
\* conversations.
C11_FailFast ==
    [][\A r \in DOMAIN runs :
        /\ (runs[r].pc = "exec_start" /\ NoneResolves(runs[r]) /\ runs'[r].pc # runs[r].pc)
            => /\ runs'[r].pc = "exec_threw"
               /\ runs'[r].opened = <<>>
               /\ runs'[r].streams = <<>>
               /\ runs'[r].prompts = <<>>
               /\ conversations' = conversations
        /\ (runs[r].pc = "exec_threw" /\ runs'[r].pc # runs[r].pc)
            => /\ runs'[r].pc = "done"
               /\ LastOut(runs'[r]) = "failed"
               /\ runs'[r].opened = <<>>
               /\ runs'[r].streams = <<>>
               /\ conversations' = conversations]_vars

C11_Witness ==
    \E r \in DOMAIN runs :
        /\ runs[r].mode = "handler"
        /\ runs[r].pc = "done"
        /\ NoneResolves(runs[r])
        /\ LastOut(runs[r]) = "failed"
        /\ runs[r].opened = <<>>
        /\ CurrentSubTasks(runs[r].sessionId) = <<>>

\* A remote agent failed during the run: a stream raised while it was read,
\* or getTask raised.
RemoteAgentFailed(R) ==
    \/ \E k \in DOMAIN R.streams : R.streams[k].fin = "raised"
    \/ \E i \in 1..Len(R.getTaskCalls) : R.getTaskCalls[i].outcome = "throws"

\* C12: a handled request during which a remote agent failed, and which was
\* not canceled, has a failed status among the statuses given to the caller.
C12_FailureSurfaces ==
    \A r \in DOMAIN runs :
        (/\ runs[r].mode = "handler"
         /\ runs[r].pc = "done"
         /\ LastOut(runs[r]) # "canceled"
         /\ RemoteAgentFailed(runs[r]))
        => "failed" \in Range(runs[r].out)

IsStoreProbe == DOMAIN probe = {"op", "id", "known", "threw", "result", "before"}

StoreMutators == {"addUserMessage", "addAgentResponse", "setInputRequiredState",
                  "addSubTaskInfo"}

\* C13: addUserMessage, addAgentResponse, setInputRequiredState and
\* addSubTaskInfo called with an id that is no key of the store throw and
\* leave the store as it was; getConversation with such an id returns
\* undefined, does not throw, and leaves the store as it was.
C13_UnknownConversation ==
    (IsStoreProbe /\ ~probe.known) =>
        /\ probe.op \in StoreMutators =>
              probe.threw /\ conversations = probe.before
        /\ probe.op = "getConversation" =>
              ~probe.threw /\ probe.result = None /\ conversations = probe.before

C13_Witness ==
    /\ IsStoreProbe
    /\ probe.op = "addSubTaskInfo"
    /\ ~probe.known
    /\ probe.threw
    /\ \E c \in DOMAIN conversations : conversations[c].turns # <<>>

\* C14: createConversation called with an id that is already a key of the
\* store leaves that conversation's turns and lastState as they were.
C14_CreateOnce ==
    (IsStoreProbe /\ probe.op = "createConversation" /\ probe.known) =>
        /\ conversations[probe.id].turns = probe.before[probe.id].turns
        /\ conversations[probe.id].lastState = probe.before[probe.id].lastState

IsRegProbe == DOMAIN probe = {"capabilities", "found"}

\* token is a substring of capability when the case of letters is ignored.
CaseInsensitiveSubstring(token, capability) ==
    \E i \in 0..(Len(capability) - Len(token)) :
        \A j \in 1..Len(token) : Lower(capability[i + j]) = Lower(token[j])

IndexedCapabilities(id) ==
    {c \in DOMAIN agentsByCapability : id \in agentsByCapability[c]}

AgentIds(ags) == {ags[i].id : i \in 1..Len(ags)}

PositionOf(ags, id) == CHOOSE i \in 1..Len(ags) : ags[i].id = id

\* C15: findAgentsByCapabilities returns an agent exactly when a requested
\* token is a case-insensitive substring of a capability the agent is
\* indexed under and the agent is active; a step that turns an agent from
\* active to unreachable leaves the index as it is.
C15_CapabilityDiscovery ==
    [][/\ (IsRegProbe /\ probe' # probe) =>
            probe'.found =
                {id \in AgentIds(agents) :
                    /\ agents[PositionOf(agents, id)].status = "active"
                    /\ \E k \in 1..Len(probe'.capabilities) :
                          \E c \in IndexedCapabilities(id) :
                              CaseInsensitiveSubstring(probe'.capabilities[k], c)}
       /\ (IsRegProbe /\ \E i \in 1..Len(agents) :
                /\ agents[i].status = "active"
                /\ agents'[i].status = "unreachable")
            => agentsByCapability' = agentsByCapability]_vars

C15_Witness ==
    /\ IsRegProbe
    /\ probe.capabilities = <<<<"A">>>>
    /\ probe.found # {}
    /\ \E i \in 1..Len(agents) :
          /\ agents[i].status = "unreachable"
          /\ agents[i].id \notin probe.found
          /\ \E c \in IndexedCapabilities(agents[i].id) :
                CaseInsensitiveSubstring(<<"A">>, c)
    /\ findAgentsByCapabilities(probe.capabilities) = probe.found

\* C16: the index maps capability c to agent id i exactly when agent i is
\* registered and c is among the capabilities of agent i's current card.
C16_IndexConsistency ==
    IsRegProbe =>
        \A c \in DOMAIN agentsByCapability \cup UNION {agents[i].capabilities : i \in 1..Len(agents)} :
            \A id \in AgentIds(agents) \cup UNION {agentsByCapability[x] : x \in DOMAIN agentsByCapability} :
                (c \in DOMAIN agentsByCapability /\ id \in agentsByCapability[c])
                    <=> (\E i \in 1..Len(agents) :
                            agents[i].id = id /\ c \in agents[i].capabilities)

Integrated(R) == R.pc = "done" /\ R.integrations = 1

\* C17: when integrateAgentResponses is given no result with text, the
\* integration oracle is not called and the reply is one fixed explanation
\* for a plan that carries waitingSubTaskId and another one for a plan that
\* does not.
C17_ZeroResponseIntegration ==
    /\ NotAbleToProcess # CouldNotDetermine
    /\ \A r \in DOMAIN runs :
        (Integrated(runs[r]) /\ agentResponses(runs[r]) = {})
        => /\ runs[r].oracleCalls = 0
           /\ runs[r].reply = Some(IF IsSome(runs[r].plan.waitingSubTaskId)
                                   THEN NotAbleToProcess ELSE CouldNotDetermine)

C17_Witness ==
    \E r \in DOMAIN runs :
        /\ Integrated(runs[r])
        /\ agentResponses(runs[r]) = {}
        /\ IsSome(runs[r].plan.waitingSubTaskId)
        /\ runs[r].getTaskCalls # <<>>

\* C18: integration with at least one extracted text returns the text
\* verbatim, without a call of the integration oracle, when exactly one agent
\* was selected and the plan is not multi-agent, and calls the integration
\* oracle in every other case.
C18_SingleAgentVerbatim ==
    \A r \in DOMAIN runs :
        (Integrated(runs[r]) /\ agentResponses(runs[r]) # {})
        => IF Len(runs[r].plan.selectedAgents) = 1 /\ ~runs[r].plan.isMultiAgentTask
           THEN /\ runs[r].oracleCalls = 0
                /\ runs[r].reply = Some(<<"verbatim", agentResponses(runs[r])>>)
           ELSE runs[r].oracleCalls = 1

IsPlanProbe ==
    DOMAIN probe = {"userText", "availableAgents", "lastInputRequiredState",
                    "answer", "analysed"}

OracleFailed ==
    /\ IsPlanProbe
    /\ IsSome(probe.analysed)
    /\ The(probe.analysed).oracleCalls > 0
    /\ probe.answer.kind \in {"throws", "unparsable"}

\* C19: when the planning oracle was called and threw or returned text that
\* cannot be parsed, analyzeRequest called it once only and returns a plan
\* that selects every available agent, in order, gives each of them the
\* request text as its instruction, has execution order parallel, and is
\* multi-agent exactly when more than one agent is selected.
C19_PlanningFallback ==
    OracleFailed =>
        LET plan == The(probe.analysed).plan
            available == probe.availableAgents
        IN  /\ The(probe.analysed).oracleCalls = 1
            /\ Len(plan.selectedAgents) = Len(available)
            /\ \A i \in 1..Len(available) :
                  /\ plan.selectedAgents[i] = available[i].name
                  /\ available[i].name \in DOMAIN plan.subTasks
                  /\ plan.subTasks[available[i].name] = probe.userText
            /\ plan.executionOrder = "parallel"
            /\ plan.isMultiAgentTask <=> (Len(plan.selectedAgents) > 1)
            /\ plan.waitingSubTaskId = None

C19_Witness ==
    /\ OracleFailed
    /\ probe.answer.kind = "unparsable"
    /\ Len(probe.availableAgents) = 2
    /\ IsSome(probe.lastInputRequiredState)
    /\ The(probe.analysed).plan.isMultiAgentTask

Count(seq, x) == Cardinality({i \in 1..Len(seq) : seq[i] = x})

\* C20: a step in which the handler gives the caller a sub-task event while
\* the cancellation signal is set, in the loop over executeTaskPlan or in
\* the loop that forwards an answer, ends the run with exactly one canceled
\* status and asks no stream for a further event.
C20_CooperativeCancellation ==
    [][\A r \in DOMAIN runs :
        (/\ runs[r].cancelled
         /\ runs[r].pc \in {"yielded", "fwd_wait"}
         /\ Len(runs'[r].out) > Len(runs[r].out))
        => /\ runs'[r].pc = "done"
           /\ LastOut(runs'[r]) = "canceled"
           /\ Count(runs'[r].out, "canceled") = 1
           /\ \A k \in DOMAIN runs[r].streams :
                 runs'[r].streams[k].pending <= runs[r].streams[k].pending]_vars

IsHealthProbe == DOMAIN probe = {"phase", "pending", "outcome", "before"}

\* C21: while checkAgentsHealth runs and when it has completed, the status
\* of an agent whose probe has resolved is the one its own probe gave
\* (active on success, unreachable on failure) and the status of every other
\* agent is what it was before the call; the operation never fails; and it
\* has completed only when every agent's probe has resolved.
C21_HealthIndependence ==
    (IsHealthProbe /\ probe.phase # "idle") =>
        /\ probe.phase # "failed"
        /\ Len(agents) = Len(probe.before)
        /\ \A i \in 1..Len(agents) :
              /\ agents[i].id = probe.before[i].id
              /\ agents[i].status =
                    IF agents[i].id \in DOMAIN probe.outcome
                    THEN (IF probe.outcome[agents[i].id] THEN "active" ELSE "unreachable")
                    ELSE probe.before[i].status
        /\ probe.phase = "completed" =>
              /\ probe.pending = {}
              /\ DOMAIN probe.outcome = {agents[i].id : i \in 1..Len(agents)}

C21_Witness ==
    /\ IsHealthProbe
    /\ probe.phase = "completed"
    /\ \E i, j \in 1..Len(agents) :
          /\ ~probe.outcome[agents[i].id] /\ probe.before[i].status = "active"
          /\ probe.outcome[agents[j].id] /\ probe.before[j].status = "unreachable"

IsAddProbe == DOMAIN probe = {"called", "url", "fetched", "returned", "raised", "before"}

\* C22: a call of addAgent never raises, and when the fetch failed or the
\* descriptor fetched is malformed (it misses its name, its skills, or the id
\* of a skill) the call returns null and leaves the agent map and the
\* capability index as they were before the call.
C22_AddAgentNeverRaises ==
    (IsAddProbe /\ probe.called) =>
        /\ ~probe.raised
        /\ (~IsSome(probe.fetched) \/ ~wellFormed(The(probe.fetched))) =>
              /\ probe.returned = None
              /\ agents = probe.before.agents
              /\ agentsByCapability = probe.before.index

IsSummaryProbe == DOMAIN probe = {"called", "conversationId", "maxTurns", "summary"}

Min(a, b) == IF a < b THEN a ELSE b

\* C23: for a conversation with n >= 1 turns and any maxTurns >= 0, the
\* summary has one block for each of the last min(maxTurns, n) turns, oldest
\* first, each block holding that turn's user text, and a turn whose user
\* message has no text part gives a block with an empty user text.
C23_SummaryWindow ==
    (/\ IsSummaryProbe
     /\ probe.called
     /\ probe.conversationId \in DOMAIN conversations
     /\ Len(conversations[probe.conversationId].turns) >= 1) =>
        LET turns == conversations[probe.conversationId].turns
            n == Len(turns)
            k == Min(probe.maxTurns, n)
            blocks == probe.summary.blocks
        IN  /\ Len(blocks) = k
            /\ \A i \in 1..Len(blocks) :
                  /\ n - Len(blocks) + i \in 1..n
                  /\ blocks[i].user = joinTextParts(turns[n - Len(blocks) + i].userMessage)
                  /\ (\A j \in 1..Len(turns[n - Len(blocks) + i].userMessage) :
                          turns[n - Len(blocks) + i].userMessage[j].type # "text")
                        => blocks[i].user = <<>>

\* C24: when requests for one conversation overlap, a step of a run that
\* changes an existing turn of the conversation (a dispatch record or the
\* agent response) changes the turn that holds this run's own user message.
C24_WritesLandOnOwnTurn ==
    [][\A r \in RunIds :
        (/\ runs[r].mode = "overlap"
         /\ runs'[r] # runs[r]
         /\ Session \in DOMAIN conversations) =>
            \A i \in 1..Len(conversations[Session].turns) :
                conversations'[Session].turns[i] # conversations[Session].turns[i]
                    => conversations[Session].turns[i].userMessage = runs[r].userMessage]_vars

\* C25: in a direct run of executeTaskPlan, once a terminal status
\* (completed, failed or canceled) of a stream has been yielded and the
\* caller has asked for the next event, that stream is no longer in the live
\* set (no pull is issued on it again), and no later event of that agent is
\* yielded.
C25_TerminalLeavesLiveSet ==
    \A r \in DOMAIN runs :
        runs[r].mode = "direct" =>
            \A i \in 1..Len(runs[r].yielded) :
                runs[r].yielded[i].event \in TerminalStates =>
                    /\ (runs[r].pc # "yielded" \/ i < Len(runs[r].yielded))
                          => runs[r].yielded[i].agentName \notin runs[r].activeStreams
                    /\ \A j \in (i + 1)..Len(runs[r].yielded) :
                          runs[r].yielded[j].agentName # runs[r].yielded[i].agentName

\* C26: in a direct run of executeTaskPlan, when an input-required status of
\* a stream is handed to the caller the conversation's lastState already
\* names that agent and its sub-task id; once the caller has asked for the
\* next event the stream is out of the live set; and no later event of that
\* agent is yielded.
C26_SuspensionBeforeYield ==
    \A r \in DOMAIN runs :
        runs[r].mode = "direct" =>
            \A i \in 1..Len(runs[r].yielded) :
                runs[r].yielded[i].event = "input-required" =>
                    LET a == runs[r].yielded[i].agentName
                    IN  /\ (runs[r].pc = "yielded" /\ i = Len(runs[r].yielded)) =>
                              conversations[runs[r].sessionId].lastState =
                                  Some(InputRequiredState(a, inputRequiredSubTaskId(runs[r], a)))
                        /\ (runs[r].pc # "yielded" \/ i < Len(runs[r].yielded))
                              => a \notin runs[r].activeStreams
                        /\ \A j \in (i + 1)..Len(runs[r].yielded) :
                              runs[r].yielded[j].agentName # a

\* An input-required status was yielded, the caller went on, and an event of
\* another agent was yielded after it.
C26_Witness ==
    \E r \in DOMAIN runs :
        /\ runs[r].mode = "direct"
        /\ \E i \in 1..Len(runs[r].yielded) :
              /\ runs[r].yielded[i].event = "input-required"
              /\ i < Len(runs[r].yielded)
              /\ Len(runs[r].streams[runs[r].yielded[i].agentName].items) >= 1
              /\ runs[r].yielded[i].agentName \notin runs[r].activeStreams

\* C27: when every pull of an opened stream is answered and every stream
\* ends or raises after finitely many events, a direct run of executeTaskPlan
\* that multiplexes eventually returns with an empty live set; and it has
\* never returned while a stream is still in the live set.
C27_MultiplexingTerminates ==
    /\ [](\A r \in ExecRuns :
            (r \in DOMAIN runs /\ runs[r].pc = "exec_done") => runs[r].activeStreams = {})
    /\ \A r \in ExecRuns :
          (r \in DOMAIN runs /\ runs[r].pc \in {"mux_wait", "yielded"})
              ~> (runs[r].pc = "exec_done" /\ runs[r].activeStreams = {})

\* The run has returned after two streams were multiplexed, one of which
\* ended and one of which raised.
C27_Witness ==
    \E r \in DOMAIN runs :
        /\ runs[r].mode = "direct"
        /\ runs[r].pc = "exec_done"
        /\ \E a, b \in DOMAIN runs[r].streams :
              /\ runs[r].streams[a].fin = "ended"
              /\ runs[r].streams[b].fin = "raised"
              /\ runs[r].streams[a].items # <<>>

\* C28: while the stream of one agent is in the live set and never answers,
\* every event that the stream of another agent has produced is eventually
\* yielded to the caller.
C28_HungStreamIsolation ==
    \A r \in ExecRuns : \A k \in PlanNames \ {HungAgent} : \A i \in 1..MaxEvents :
        (/\ r \in DOMAIN runs
         /\ HungAgent \in runs[r].activeStreams
         /\ k \in DOMAIN runs[r].streams
         /\ Len(runs[r].streams[k].items) >= i)
            ~> (\E j \in 1..Len(runs[r].yielded) :
                    /\ runs[r].yielded[j].agentName = k
                    /\ runs[r].yielded[j].index = i)

\* C29: once a request handled on its own for the session has dispatched or
\* resumed a sub-task (by planning, or by forwarding the answer to a pending
\* suspension), the conversation holds exactly one turn with that request's
\* user message.
C29_OneTurnPerRequest ==
    \A r \in DOMAIN runs :
        (runs[r].mode = "handler" /\ runs[r].opened # <<>>) =>
            /\ runs[r].sessionId \in DOMAIN conversations
            /\ Cardinality({i \in 1..Len(conversations[runs[r].sessionId].turns) :
                    conversations[runs[r].sessionId].turns[i].userMessage
                        = runs[r].userMessage}) = 1

TurnMutators == {"addUserMessage", "addAgentResponse", "setInputRequiredState",
                 "clearInputRequiredState", "addSubTaskInfo"}

\* C30: a call of addUserMessage, addAgentResponse, setInputRequiredState,
\* clearInputRequiredState or addSubTaskInfo keeps every conversation, every
\* turn it had, in its place and with its user message; and a call of
\* addAgentResponse or addSubTaskInfo adds no turn and changes no turn but
\* the last one of its conversation.
C30_TurnsAppendOnly ==
    [][(DOMAIN probe' = {"op", "id", "known", "threw", "result", "before"}
            /\ probe'.op \in TurnMutators) =>
        /\ DOMAIN conversations' = DOMAIN conversations
        /\ \A id \in DOMAIN conversations :
              LET old == conversations[id].turns
                  new == conversations'[id].turns
              IN  /\ Len(new) >= Len(old)
                  /\ \A i \in 1..Len(old) : new[i].userMessage = old[i].userMessage
                  /\ probe'.op \in {"addAgentResponse", "addSubTaskInfo"} =>
                        /\ Len(new) = Len(old)
                        /\ \A i \in 1..(Len(old) - 1) : new[i] = old[i]
                        /\ id # probe'.id => new = old]_vars

\* addAgentResponse has just been called on a conversation of two turns with
\* different user messages, the first of which has no response.
C30_Witness ==
    /\ IsStoreProbe
    /\ probe.op = "addAgentResponse"
    /\ ~probe.threw
    /\ Len(conversations[probe.id].turns) = 2
    /\ conversations[probe.id].turns[1].userMessage
            # conversations[probe.id].turns[2].userMessage
    /\ ~IsSome(conversations[probe.id].turns[1].agentResponse)
    /\ IsSome(conversations[probe.id].turns[2].agentResponse)

\* C31: in a handled request, an instruction-generation call that failed is
\* followed by the dispatch of that agent with the plan's base instruction,
\* and an integration call that failed ends the run completed, with the
\* attributed concatenation of the agents' texts as its reply.
C31_OracleFailureDegrades ==
    \A r \in DOMAIN runs :
        runs[r].mode = "handler" =>
            \A i \in 1..Len(runs[r].oracleLog) :
                LET c == runs[r].oracleLog[i]
                IN  ~c.ok =>
                        IF c.call = "generateSubTaskPrompt"
                        THEN \E j \in 1..Len(runs[r].opened) :
                                /\ runs[r].opened[j].agentName = c.agentName
                                /\ runs[r].opened[j].message
                                        = TaskMessage(<<"base", c.agentName>>)
                        ELSE /\ runs[r].pc = "done"
                             /\ LastOut(runs[r]) = "completed"
                             /\ runs[r].reply
                                    = Some(<<"concatenated", agentResponses(runs[r])>>)

\* A run in which the instruction generation failed for an agent and the
\* integration call failed too.
C31_Witness ==
    \E r \in DOMAIN runs :
        /\ runs[r].mode = "handler"
        /\ \E i, j \in 1..Len(runs[r].oracleLog) :
              /\ runs[r].oracleLog[i].call = "generateSubTaskPrompt"
              /\ ~runs[r].oracleLog[i].ok
              /\ runs[r].oracleLog[j].call = "integrateResponses"
              /\ ~runs[r].oracleLog[j].ok

\* C32: in a direct run of executeTaskPlan whose plan carries a
\* waitingSubTaskId and selects more than one agent, the stream of the agent
\* that waits for the answer (the one the pending suspension names) is opened
\* with the carried id and the latest user message, and every other agent is
\* dispatched with the id derived from (task id, agent name) and with a
\* generated instruction.
C32_OnlyResumingAgentResumes ==
    \A r \in DOMAIN runs :
        (/\ runs[r].mode = "direct"
         /\ isResumingInputRequiredTask(runs[r].plan)
         /\ Len(runs[r].agentsByName) > 1) =>
            \A i \in 1..Len(runs[r].opened) :
                LET call == runs[r].opened[i]
                IN  IF call.agentName = NameB
                    THEN /\ call.id = The(runs[r].plan.waitingSubTaskId)
                         /\ call.message = LatestUserMessage(runs[r].sessionId)
                    ELSE /\ call.id = generateSubTaskId(runs[r].taskId, call.agentName)
                         /\ call.message.kind = "prompt"

\* C33: for parent task ids p, q and agent names a, b with (p, a) different
\* from (q, b), generateSubTaskId(p, a) differs from generateSubTaskId(q, b).
C33_FreshIdsUnique ==
    (DOMAIN probe = {"p", "q", "a", "b", "ids"} /\ IsSome(probe.ids)) =>
        (<<probe.p, probe.a>> # <<probe.q, probe.b>>
            => The(probe.ids).first # The(probe.ids).second)

\* C34: in a direct run of executeTaskPlan, when an input-required status of
\* an agent has just been recorded and handed to the caller, the sub-task id
\* recorded in the conversation's lastState (and in inputRequiredAgents) is
\* the id that agent's stream was opened with in this run.
C34_SuspensionIdIsStreamId ==
    \A r \in DOMAIN runs :
        (/\ runs[r].mode = "direct"
         /\ runs[r].pc = "yielded"
         /\ The(runs[r].cur).event = "input-required") =>
            LET a == The(runs[r].cur).agentName
            IN  /\ conversations[runs[r].sessionId].lastState
                        = Some(InputRequiredState(a, runs[r].streams[a].id))
                /\ \A x \in runs[r].inputRequiredAgents :
                        x.agentName = a => x.subTaskId = runs[r].streams[a].id

IsResolveProbe == DOMAIN probe = {"plan", "resolved"}

\* C35: every agent that executeTaskPlan resolves a plan built from the
\* active agents to (and so opens a stream on) is active.
C35_NoStreamToUnreachable ==
    (IsResolveProbe /\ IsSome(probe.resolved)) =>
        \A i \in 1..Len(The(probe.resolved)) :
            agents[The(probe.resolved)[i].agent].status = "active"

\* C36: a selected name that is the declared name of a registered agent is
\* resolved to an agent that declares that very name.
C36_ResolvesDeclaredName ==
    (IsResolveProbe /\ IsSome(probe.resolved)) =>
        \A i \in 1..Len(The(probe.resolved)) :
            LET e == The(probe.resolved)[i]
            IN  (\E j \in 1..Len(agents) : agents[j].name = e.agentName)
                    => agents[e.agent].name = e.agentName

\* C37: in a direct run of executeTaskPlan, every yielded event is the event
\* its agent's stream produced at the position it is tagged with, and of two
\* yielded events of one agent the one yielded first was produced first (so
\* none is yielded twice).
C37_PerAgentOrder ==
    \A r \in DOMAIN runs :
        runs[r].mode = "direct" =>
            \A j \in 1..Len(runs[r].yielded) :
                LET y == runs[r].yielded[j]
                IN  /\ y.agentName \in DOMAIN runs[r].streams
                    /\ y.index \in 1..Len(runs[r].streams[y.agentName].items)
                    /\ runs[r].streams[y.agentName].items[y.index] = y.event
                    /\ \A i \in 1..(j - 1) :
                          runs[r].yielded[i].agentName = y.agentName
                              => runs[r].yielded[i].index < y.index

\* Two events of one agent were yielded in a run in which the stream of
\* another agent produced an event too.
C37_Witness ==
    \E r \in DOMAIN runs :
        /\ runs[r].mode = "direct"
        /\ \E i, j \in 1..Len(runs[r].yielded) :
              /\ i < j
              /\ runs[r].yielded[i].agentName = runs[r].yielded[j].agentName
              /\ \E k \in DOMAIN runs[r].streams :
                    /\ k # runs[r].yielded[i].agentName
                    /\ runs[r].streams[k].items # <<>>

\* C38: a request taken up while the session's conversation holds a pending
\* suspension, the command 'list agents' included, goes to the forwarding
\* branch with that suspension; and a run in the forwarding branch has no
\* plan, has called no oracle, and has opened no stream but the one of the
\* waiting agent, under the stored sub-task id and with the request's message.
C38_SuspensionCapturesRequests ==
    /\ [][\A r \in RunIds :
            (/\ r \in DOMAIN runs
             /\ runs[r].mode = "handler"
             /\ runs[r].pc = "idle"
             /\ runs'[r].pc # "idle"
             /\ Session \in DOMAIN conversations
             /\ IsSome(conversations[Session].lastState)) =>
                /\ runs'[r].pc = "fwd_open"
                /\ runs'[r].forward = conversations[Session].lastState]_vars
    /\ [](\A r \in RunIds :
            (r \in DOMAIN runs /\ runs[r].mode = "handler" /\ IsSome(runs[r].forward)) =>
                /\ runs[r].plan.selectedAgents = <<>>
                /\ runs[r].prompts = <<>>
                /\ runs[r].oracleCalls = 0
                /\ DOMAIN runs[r].streams \subseteq {The(runs[r].forward).inputRequiredAgent}
                /\ \A i \in 1..Len(runs[r].opened) :
                      /\ runs[r].opened[i].agentName = The(runs[r].forward).inputRequiredAgent
                      /\ runs[r].opened[i].id = The(runs[r].forward).subTaskId
                      /\ runs[r].opened[i].message = runs[r].userMessage)

\* The command 'list agents' was forwarded to the waiting agent.
C38_Witness ==
    \E r \in DOMAIN runs :
        /\ runs[r].mode = "handler"
        /\ isListAgents(runs[r].userMessage)
        /\ IsSome(runs[r].forward)
        /\ \E i \in 1..Len(runs[r].opened) : runs[r].opened[i].ok

\* C39: when the forwarding of an answer to the waiting agent fails (the
\* agent is not found, sendTaskSubscribe throws, or the stream raises), the
\* handled request has ended with the status failed and the conversation's
\* lastState is the suspension the request found.
C39_FailedResumptionKeepsSuspension ==
    \A r \in DOMAIN runs :
        (/\ runs[r].mode = "handler"
         /\ IsSome(runs[r].forward)
         /\ \/ runs[r].pc = "done" /\ LastOut(runs[r]) = "failed"
            \/ \E i \in 1..Len(runs[r].opened) : ~runs[r].opened[i].ok
            \/ \E k \in DOMAIN runs[r].streams : runs[r].streams[k].fin = "raised") =>
            /\ runs[r].pc = "done"
            /\ LastOut(runs[r]) = "failed"
            /\ conversations[runs[r].sessionId].lastState = runs[r].forward

\* The forwarded stream gave an event and then raised.
C39_Witness ==
    \E r \in DOMAIN runs :
        /\ runs[r].mode = "handler"
        /\ IsSome(runs[r].forward)
        /\ \E k \in DOMAIN runs[r].streams :
              /\ runs[r].streams[k].fin = "raised"
              /\ runs[r].streams[k].items # <<>>

\* The handled request has ended suspended, canceled or failed.
EndedWithoutIntegration(R) ==
    /\ R.mode = "handler"
    /\ R.pc = "done"
    /\ LastOut(R) \in {"input-required", "canceled", "failed"}

LastTurnResponse(id) ==
    IF id \notin DOMAIN conversations \/ conversations[id].turns = <<>>
    THEN None
    ELSE conversations[id].turns[Len(conversations[id].turns)].agentResponse

\* The request was a registry command: it read no suspension and appended
\* no turn.
IsRegistryCommand(R) ==
    /\ ~IsSome(R.forward)
    /\ isAddAgent(R.userMessage) \/ isListAgents(R.userMessage)

\* C40, as stated: whenever a handled request has ended suspended, canceled
\* or failed, the agent response of the conversation's last turn is unset.
C40_EndedRunLeavesLastTurnUnset ==
    \A r \in DOMAIN runs :
        EndedWithoutIntegration(runs[r]) => LastTurnResponse(runs[r].sessionId) = None

\* C40, amended: the agent response of a turn changes only in the step in
\* which a request integrates and completes, a new turn starts with no
\* response, and whenever a request that planned or forwarded an answer has
\* ended suspended, canceled or failed, the agent response of the
\* conversation's last turn is unset.
C40_ResponseOnlyAtIntegration ==
    /\ [][\A id \in DOMAIN conversations' :
            \A i \in 1..Len(conversations'[id].turns) :
                LET after == conversations'[id].turns[i].agentResponse
                IN  IF id \in DOMAIN conversations /\ i <= Len(conversations[id].turns)
                    THEN after # conversations[id].turns[i].agentResponse =>
                            /\ i = Len(conversations[id].turns)
                            /\ \E r \in DOMAIN runs :
                                  /\ runs[r].pc = "integrate"
                                  /\ runs'[r].pc = "done"
                                  /\ runs'[r].integrations = runs[r].integrations + 1
                                  /\ LastOut(runs'[r]) = "completed"
                    ELSE after = None]_vars
    /\ [](\A r \in DOMAIN runs :
            (EndedWithoutIntegration(runs[r]) /\ ~IsRegistryCommand(runs[r])) =>
                LastTurnResponse(runs[r].sessionId) = None)

\* The second request planned and ended suspended or failed after the first
\* had been integrated: the first turn holds a response, the second none.
C40_Witness ==
    \E r \in DOMAIN runs :
        /\ EndedWithoutIntegration(runs[r])
        /\ ~IsRegistryCommand(runs[r])
        /\ ~IsSome(runs[r].forward)
        /\ Len(conversations[runs[r].sessionId].turns) = 2
        /\ conversations[runs[r].sessionId].turns[1].agentResponse # None
        /\ LastTurnResponse(runs[r].sessionId) = None

====
